---- MODULE Spec2Model ----
(***************************************************************************)
(* A state-machine model of libirecovery (src/libsn0wcore/libirecovery.c): *)
(* the event-subscription registry of a session and the chunked transfer   *)
(* engine (irecv_send_buffer, irecv_recv_buffer) with the DFU checksum.    *)
(*                                                                         *)
(* The USB stack below irecv_control_transfer / irecv_bulk_transfer is the *)
(* environment: every call into it returns one of a small set of results,  *)
(* chosen nondeterministically.                                            *)
(***************************************************************************)
EXTENDS Integers, Sequences, FiniteSets, TLC

VARIABLES
    client,      \* the session: struct irecv_client (mode, handle, callbacks)
    pc,          \* position of the running call ("idle" between calls)
    loc,         \* local variables of the running call
    wire,        \* transfers the running call has handed to the USB stack
    events,      \* events the running call has delivered to callbacks
    ret,         \* return value of the call ("none" while it runs)
    lastCall,    \* history: the last registry call and its arguments
    lastSub,     \* history: per kind, the callback of its latest subscribe
    retryPolls,  \* history: status polls made by the current retry loop
    hal          \* the USB library: its context, open handles, sessions

vars == <<client, pc, loc, wire, events, ret, lastCall, lastSub, retryPolls,
          hal>>

----------------------------------------------------------------------------
(* Bounds of the model.                                                    *)

\* Buffers hold up to MaxFullPackets full packets plus a remainder.
MaxFullPackets == 1
\* The history counter retryPolls stops counting at RETRY_LIMIT + PollSlack.
PollSlack == 2
\* Command texts are up to 256 + MaxCommandExcess characters long.
MaxCommandExcess == 1
\* irecv_open_attempts is called with up to MaxAttempts attempts.
MaxAttempts == 3
\* irecv_reconnect is called with a pause of up to MaxPause seconds.
MaxPause == 1
\* The application closes one session up to MaxCloses times.
MaxCloses == 2
\* A script file holds up to MaxScriptLen characters, and up to MaxOverread
\* bytes that are not NUL follow its buffer in memory.
MaxScriptLen == 5
MaxOverread == 1
\* A receive reads up to MaxDrainChunks full buffers before its last read.
MaxDrainChunks == 1
\* A serial string holds up to MaxFields fields.
MaxFields == 2

----------------------------------------------------------------------------
(* Values.                                                                 *)

NULL == "NULL"

\* irecv_error_t; the results of the USB stack that the code passes through
\* unchanged are kept as RawError.
IRECV_E_SUCCESS == "IRECV_E_SUCCESS"
IRECV_E_NO_DEVICE == "IRECV_E_NO_DEVICE"
IRECV_E_USB_UPLOAD == "IRECV_E_USB_UPLOAD"
IRECV_E_USB_STATUS == "IRECV_E_USB_STATUS"
IRECV_E_UNKNOWN_ERROR == "IRECV_E_UNKNOWN_ERROR"
RawError == "RAW_USB_ERROR"

\* client->mode: the product id the session was opened on.
kRecoveryMode1 == "kRecoveryMode1"
kRecoveryMode2 == "kRecoveryMode2"
kRecoveryMode3 == "kRecoveryMode3"
kRecoveryMode4 == "kRecoveryMode4"
kDfuMode == "kDfuMode"
kDfuMode2 == "kDfuMode2"
Modes == {kRecoveryMode1, kRecoveryMode2, kRecoveryMode3, kRecoveryMode4,
          kDfuMode, kDfuMode2}

\* irecv_event_type, and one value that is none of the six.
IRECV_RECEIVED == "IRECV_RECEIVED"
IRECV_PROGRESS == "IRECV_PROGRESS"
IRECV_CONNECTED == "IRECV_CONNECTED"
IRECV_PRECOMMAND == "IRECV_PRECOMMAND"
IRECV_POSTCOMMAND == "IRECV_POSTCOMMAND"
IRECV_DISCONNECTED == "IRECV_DISCONNECTED"
EventTypes == {IRECV_RECEIVED, IRECV_PROGRESS, IRECV_CONNECTED,
               IRECV_PRECOMMAND, IRECV_POSTCOMMAND, IRECV_DISCONNECTED}
UnrecognizedType == "UNRECOGNIZED_TYPE"

\* The callback slots of struct irecv_client, and the slot of each kind.
Slots == {"received_callback", "progress_callback", "connected_callback",
          "precommand_callback", "postcommand_callback",
          "disconnected_callback"}
SlotOf == [t \in EventTypes |->
             CASE t = IRECV_RECEIVED -> "received_callback"
               [] t = IRECV_PROGRESS -> "progress_callback"
               [] t = IRECV_CONNECTED -> "connected_callback"
               [] t = IRECV_PRECOMMAND -> "precommand_callback"
               [] t = IRECV_POSTCOMMAND -> "postcommand_callback"
               [] t = IRECV_DISCONNECTED -> "disconnected_callback"]

\* Callbacks a caller may register.
Callbacks == {"cb1", "cb2"}

\* The USB library after irecv_init and one successful irecv_open: the
\* context libirecovery_context is live and was never released, one device
\* handle is open and one struct irecv_client is allocated.
OpenHal == [context |-> "live", exits |-> 0, handles |-> 1, sessions |-> 1]

\* A session as irecv_open leaves it: live handle, no callback registered.
NewClient(mode) ==
    [mode |-> mode, handle |-> "live",
     received_callback |-> NULL, progress_callback |-> NULL,
     connected_callback |-> NULL, precommand_callback |-> NULL,
     postcommand_callback |-> NULL, disconnected_callback |-> NULL]

check_context(c) ==
    IF c.handle = NULL THEN IRECV_E_NO_DEVICE ELSE IRECV_E_SUCCESS

----------------------------------------------------------------------------
(* The event registry.                                                     *)

\* The slots the switch of irecv_event_subscribe / irecv_event_unsubscribe
\* assigns for `type`: a case without break runs on into the next case.
SwitchSlots(type) ==
    CASE type = IRECV_RECEIVED -> {"received_callback"}
      [] type = IRECV_PROGRESS -> {"progress_callback", "connected_callback",
                                   "precommand_callback"}
      [] type = IRECV_CONNECTED -> {"connected_callback",
                                    "precommand_callback"}
      [] type = IRECV_PRECOMMAND -> {"precommand_callback"}
      [] type = IRECV_POSTCOMMAND -> {"postcommand_callback"}
      [] type = IRECV_DISCONNECTED -> {"disconnected_callback"}
      [] OTHER -> {}

\* The value the switch ends with: the cases that reach a break return
\* success after the switch, IRECV_DISCONNECTED runs on into default.
SwitchResult(type) ==
    IF type \in {IRECV_RECEIVED, IRECV_PROGRESS, IRECV_CONNECTED,
                 IRECV_PRECOMMAND, IRECV_POSTCOMMAND}
    THEN IRECV_E_SUCCESS
    ELSE IRECV_E_UNKNOWN_ERROR

\* A registry that stores the callback in the mode as well.
SetSlotsAndMode(c, slots, callback) ==
    [f \in DOMAIN c |-> IF f \in slots \cup {"mode"} THEN callback ELSE c[f]]

SetSlots(c, slots, callback) ==
    [f \in DOMAIN c |-> IF f \in slots THEN callback ELSE c[f]]

irecv_event_subscribe(type, callback) ==
    /\ pc = "idle"
    /\ client' = SetSlots(client, SwitchSlots(type), callback)
    /\ ret' = SwitchResult(type)
    /\ lastCall' = [op |-> "subscribe", type |-> type, callback |-> callback]
    /\ lastSub' = IF type \in EventTypes
                  THEN [lastSub EXCEPT ![type] = callback]
                  ELSE lastSub
    /\ UNCHANGED <<hal, pc, loc, wire, events, retryPolls>>

irecv_event_unsubscribe(type) ==
    /\ pc = "idle"
    /\ client' = SetSlots(client, SwitchSlots(type), NULL)
    /\ ret' = SwitchResult(type)
    /\ lastCall' = [op |-> "unsubscribe", type |-> type, callback |-> NULL]
    /\ lastSub' = IF type \in EventTypes
                  THEN [lastSub EXCEPT ![type] = NULL]
                  ELSE lastSub
    /\ UNCHANGED <<hal, pc, loc, wire, events, retryPolls>>

Subscribe ==
    \E type \in EventTypes \cup {UnrecognizedType}, callback \in Callbacks :
        irecv_event_subscribe(type, callback)

Unsubscribe ==
    \E type \in EventTypes \cup {UnrecognizedType} :
        irecv_event_unsubscribe(type)

NoCall == [op |-> "none", type |-> NULL, callback |-> NULL]
NoLocals == [fn |-> "none"]

InitEvents ==
    /\ client \in {NewClient(m) : m \in {kRecoveryMode2, kDfuMode}}
    /\ pc = "idle"
    /\ loc = NoLocals
    /\ wire = <<>>
    /\ events = <<>>
    /\ ret = "none"
    /\ lastCall = NoCall
    /\ lastSub = [t \in EventTypes |-> NULL]
    /\ retryPolls = 0
    /\ hal = OpenHal

NextEvents == Subscribe \/ Unsubscribe

SpecEvents == InitEvents /\ [][NextEvents]_vars

----------------------------------------------------------------------------
(* The DFU checksum.  A 32-bit word is the pair <<high half, low half>> of *)
(* its 16-bit halves.                                                      *)

dfu_hash_t1 == <<
    <<\H0000, \H0000>>, <<\H7707, \H3096>>, <<\HEE0E, \H612C>>, <<\H9909, \H51BA>>,
    <<\H076D, \HC419>>, <<\H706A, \HF48F>>, <<\HE963, \HA535>>, <<\H9E64, \H95A3>>,
    <<\H0EDB, \H8832>>, <<\H79DC, \HB8A4>>, <<\HE0D5, \HE91E>>, <<\H97D2, \HD988>>,
    <<\H09B6, \H4C2B>>, <<\H7EB1, \H7CBD>>, <<\HE7B8, \H2D07>>, <<\H90BF, \H1D91>>,
    <<\H1DB7, \H1064>>, <<\H6AB0, \H20F2>>, <<\HF3B9, \H7148>>, <<\H84BE, \H41DE>>,
    <<\H1ADA, \HD47D>>, <<\H6DDD, \HE4EB>>, <<\HF4D4, \HB551>>, <<\H83D3, \H85C7>>,
    <<\H136C, \H9856>>, <<\H646B, \HA8C0>>, <<\HFD62, \HF97A>>, <<\H8A65, \HC9EC>>,
    <<\H1401, \H5C4F>>, <<\H6306, \H6CD9>>, <<\HFA0F, \H3D63>>, <<\H8D08, \H0DF5>>,
    <<\H3B6E, \H20C8>>, <<\H4C69, \H105E>>, <<\HD560, \H41E4>>, <<\HA267, \H7172>>,
    <<\H3C03, \HE4D1>>, <<\H4B04, \HD447>>, <<\HD20D, \H85FD>>, <<\HA50A, \HB56B>>,
    <<\H35B5, \HA8FA>>, <<\H42B2, \H986C>>, <<\HDBBB, \HC9D6>>, <<\HACBC, \HF940>>,
    <<\H32D8, \H6CE3>>, <<\H45DF, \H5C75>>, <<\HDCD6, \H0DCF>>, <<\HABD1, \H3D59>>,
    <<\H26D9, \H30AC>>, <<\H51DE, \H003A>>, <<\HC8D7, \H5180>>, <<\HBFD0, \H6116>>,
    <<\H21B4, \HF4B5>>, <<\H56B3, \HC423>>, <<\HCFBA, \H9599>>, <<\HB8BD, \HA50F>>,
    <<\H2802, \HB89E>>, <<\H5F05, \H8808>>, <<\HC60C, \HD9B2>>, <<\HB10B, \HE924>>,
    <<\H2F6F, \H7C87>>, <<\H5868, \H4C11>>, <<\HC161, \H1DAB>>, <<\HB666, \H2D3D>>,
    <<\H76DC, \H4190>>, <<\H01DB, \H7106>>, <<\H98D2, \H20BC>>, <<\HEFD5, \H102A>>,
    <<\H71B1, \H8589>>, <<\H06B6, \HB51F>>, <<\H9FBF, \HE4A5>>, <<\HE8B8, \HD433>>,
    <<\H7807, \HC9A2>>, <<\H0F00, \HF934>>, <<\H9609, \HA88E>>, <<\HE10E, \H9818>>,
    <<\H7F6A, \H0DBB>>, <<\H086D, \H3D2D>>, <<\H9164, \H6C97>>, <<\HE663, \H5C01>>,
    <<\H6B6B, \H51F4>>, <<\H1C6C, \H6162>>, <<\H8565, \H30D8>>, <<\HF262, \H004E>>,
    <<\H6C06, \H95ED>>, <<\H1B01, \HA57B>>, <<\H8208, \HF4C1>>, <<\HF50F, \HC457>>,
    <<\H65B0, \HD9C6>>, <<\H12B7, \HE950>>, <<\H8BBE, \HB8EA>>, <<\HFCB9, \H887C>>,
    <<\H62DD, \H1DDF>>, <<\H15DA, \H2D49>>, <<\H8CD3, \H7CF3>>, <<\HFBD4, \H4C65>>,
    <<\H4DB2, \H6158>>, <<\H3AB5, \H51CE>>, <<\HA3BC, \H0074>>, <<\HD4BB, \H30E2>>,
    <<\H4ADF, \HA541>>, <<\H3DD8, \H95D7>>, <<\HA4D1, \HC46D>>, <<\HD3D6, \HF4FB>>,
    <<\H4369, \HE96A>>, <<\H346E, \HD9FC>>, <<\HAD67, \H8846>>, <<\HDA60, \HB8D0>>,
    <<\H4404, \H2D73>>, <<\H3303, \H1DE5>>, <<\HAA0A, \H4C5F>>, <<\HDD0D, \H7CC9>>,
    <<\H5005, \H713C>>, <<\H2702, \H41AA>>, <<\HBE0B, \H1010>>, <<\HC90C, \H2086>>,
    <<\H5768, \HB525>>, <<\H206F, \H85B3>>, <<\HB966, \HD409>>, <<\HCE61, \HE49F>>,
    <<\H5EDE, \HF90E>>, <<\H29D9, \HC998>>, <<\HB0D0, \H9822>>, <<\HC7D7, \HA8B4>>,
    <<\H59B3, \H3D17>>, <<\H2EB4, \H0D81>>, <<\HB7BD, \H5C3B>>, <<\HC0BA, \H6CAD>>,
    <<\HEDB8, \H8320>>, <<\H9ABF, \HB3B6>>, <<\H03B6, \HE20C>>, <<\H74B1, \HD29A>>,
    <<\HEAD5, \H4739>>, <<\H9DD2, \H77AF>>, <<\H04DB, \H2615>>, <<\H73DC, \H1683>>,
    <<\HE363, \H0B12>>, <<\H9464, \H3B84>>, <<\H0D6D, \H6A3E>>, <<\H7A6A, \H5AA8>>,
    <<\HE40E, \HCF0B>>, <<\H9309, \HFF9D>>, <<\H0A00, \HAE27>>, <<\H7D07, \H9EB1>>,
    <<\HF00F, \H9344>>, <<\H8708, \HA3D2>>, <<\H1E01, \HF268>>, <<\H6906, \HC2FE>>,
    <<\HF762, \H575D>>, <<\H8065, \H67CB>>, <<\H196C, \H3671>>, <<\H6E6B, \H06E7>>,
    <<\HFED4, \H1B76>>, <<\H89D3, \H2BE0>>, <<\H10DA, \H7A5A>>, <<\H67DD, \H4ACC>>,
    <<\HF9B9, \HDF6F>>, <<\H8EBE, \HEFF9>>, <<\H17B7, \HBE43>>, <<\H60B0, \H8ED5>>,
    <<\HD6D6, \HA3E8>>, <<\HA1D1, \H937E>>, <<\H38D8, \HC2C4>>, <<\H4FDF, \HF252>>,
    <<\HD1BB, \H67F1>>, <<\HA6BC, \H5767>>, <<\H3FB5, \H06DD>>, <<\H48B2, \H364B>>,
    <<\HD80D, \H2BDA>>, <<\HAF0A, \H1B4C>>, <<\H3603, \H4AF6>>, <<\H4104, \H7A60>>,
    <<\HDF60, \HEFC3>>, <<\HA867, \HDF55>>, <<\H316E, \H8EEF>>, <<\H4669, \HBE79>>,
    <<\HCB61, \HB38C>>, <<\HBC66, \H831A>>, <<\H256F, \HD2A0>>, <<\H5268, \HE236>>,
    <<\HCC0C, \H7795>>, <<\HBB0B, \H4703>>, <<\H2202, \H16B9>>, <<\H5505, \H262F>>,
    <<\HC5BA, \H3BBE>>, <<\HB2BD, \H0B28>>, <<\H2BB4, \H5A92>>, <<\H5CB3, \H6A04>>,
    <<\HC2D7, \HFFA7>>, <<\HB5D0, \HCF31>>, <<\H2CD9, \H9E8B>>, <<\H5BDE, \HAE1D>>,
    <<\H9B64, \HC2B0>>, <<\HEC63, \HF226>>, <<\H756A, \HA39C>>, <<\H026D, \H930A>>,
    <<\H9C09, \H06A9>>, <<\HEB0E, \H363F>>, <<\H7207, \H6785>>, <<\H0500, \H5713>>,
    <<\H95BF, \H4A82>>, <<\HE2B8, \H7A14>>, <<\H7BB1, \H2BAE>>, <<\H0CB6, \H1B38>>,
    <<\H92D2, \H8E9B>>, <<\HE5D5, \HBE0D>>, <<\H7CDC, \HEFB7>>, <<\H0BDB, \HDF21>>,
    <<\H86D3, \HD2D4>>, <<\HF1D4, \HE242>>, <<\H68DD, \HB3F8>>, <<\H1FDA, \H836E>>,
    <<\H81BE, \H16CD>>, <<\HF6B9, \H265B>>, <<\H6FB0, \H77E1>>, <<\H18B7, \H4777>>,
    <<\H8808, \H5AE6>>, <<\HFF0F, \H6A70>>, <<\H6606, \H3BCA>>, <<\H1101, \H0B5C>>,
    <<\H8F65, \H9EFF>>, <<\HF862, \HAE69>>, <<\H616B, \HFFD3>>, <<\H166C, \HCF45>>,
    <<\HA00A, \HE278>>, <<\HD70D, \HD2EE>>, <<\H4E04, \H8354>>, <<\H3903, \HB3C2>>,
    <<\HA767, \H2661>>, <<\HD060, \H16F7>>, <<\H4969, \H474D>>, <<\H3E6E, \H77DB>>,
    <<\HAED1, \H6A4A>>, <<\HD9D6, \H5ADC>>, <<\H40DF, \H0B66>>, <<\H37D8, \H3BF0>>,
    <<\HA9BC, \HAE53>>, <<\HDEBB, \H9EC5>>, <<\H47B2, \HCF7F>>, <<\H30B5, \HFFE9>>,
    <<\HBDBD, \HF21C>>, <<\HCABA, \HC28A>>, <<\H53B3, \H9330>>, <<\H24B4, \HA3A6>>,
    <<\HBAD0, \H3605>>, <<\HCDD7, \H0693>>, <<\H54DE, \H5729>>, <<\H23D9, \H67BF>>,
    <<\HB366, \H7A2E>>, <<\HC461, \H4AB8>>, <<\H5D68, \H1B02>>, <<\H2A6F, \H2B94>>,
    <<\HB40B, \HBE37>>, <<\HC30C, \H8EA1>>, <<\H5A05, \HDF1B>>, <<\H2D02, \HEF8D>>>>

\* Bitwise exclusive or of two naturals, bit by bit.
RECURSIVE XorBits(_, _)
XorBits(a, b) ==
    IF a = 0 THEN b
    ELSE IF b = 0 THEN a
    ELSE ((a + b) % 2) + 2 * XorBits(a \div 2, b \div 2)

\* a ^ b for 4-bit a and b, tabulated: row a, column b.
Xor4 == <<
     0,  1,  2,  3,  4,  5,  6,  7,  8,  9, 10, 11, 12, 13, 14, 15,
     1,  0,  3,  2,  5,  4,  7,  6,  9,  8, 11, 10, 13, 12, 15, 14,
     2,  3,  0,  1,  6,  7,  4,  5, 10, 11,  8,  9, 14, 15, 12, 13,
     3,  2,  1,  0,  7,  6,  5,  4, 11, 10,  9,  8, 15, 14, 13, 12,
     4,  5,  6,  7,  0,  1,  2,  3, 12, 13, 14, 15,  8,  9, 10, 11,
     5,  4,  7,  6,  1,  0,  3,  2, 13, 12, 15, 14,  9,  8, 11, 10,
     6,  7,  4,  5,  2,  3,  0,  1, 14, 15, 12, 13, 10, 11,  8,  9,
     7,  6,  5,  4,  3,  2,  1,  0, 15, 14, 13, 12, 11, 10,  9,  8,
     8,  9, 10, 11, 12, 13, 14, 15,  0,  1,  2,  3,  4,  5,  6,  7,
     9,  8, 11, 10, 13, 12, 15, 14,  1,  0,  3,  2,  5,  4,  7,  6,
    10, 11,  8,  9, 14, 15, 12, 13,  2,  3,  0,  1,  6,  7,  4,  5,
    11, 10,  9,  8, 15, 14, 13, 12,  3,  2,  1,  0,  7,  6,  5,  4,
    12, 13, 14, 15,  8,  9, 10, 11,  4,  5,  6,  7,  0,  1,  2,  3,
    13, 12, 15, 14,  9,  8, 11, 10,  5,  4,  7,  6,  1,  0,  3,  2,
    14, 15, 12, 13, 10, 11,  8,  9,  6,  7,  4,  5,  2,  3,  0,  1,
    15, 14, 13, 12, 11, 10,  9,  8,  7,  6,  5,  4,  3,  2,  1,  0>>

\* The table is the exclusive or.
Xor4IsXor ==
    \A a \in 0..15, b \in 0..15 : Xor4[16 * a + b + 1] = XorBits(a, b)

\* a ^ b on bytes, on 16-bit halves and on 32-bit words.
Xor8(a, b) ==
    Xor4[16 * (a % 16) + (b % 16) + 1]
      + 16 * Xor4[16 * (a \div 16) + (b \div 16) + 1]

Xor16(a, b) == Xor8(a % 256, b % 256) + 256 * Xor8(a \div 256, b \div 256)

Xor32(x, y) == <<Xor16(x[1], y[1]), Xor16(x[2], y[2])>>

\* x >> 8 on a 32-bit word.
Shr8(x) == <<x[1] \div 256, (x[1] % 256) * 256 + (x[2] \div 256)>>

\* Byte n (0 = least significant) of a 32-bit word: (x >> 8n) & 0xFF.
ByteOf(x, n) ==
    CASE n = 0 -> x[2] % 256
      [] n = 1 -> x[2] \div 256
      [] n = 2 -> x[1] % 256
      [] n = 3 -> x[1] \div 256

IsWord(x) == x[1] \in 0..65535 /\ x[2] \in 0..65535

\* unsigned int h1 = 0xFFFFFFFF
HashSeed == <<65535, 65535>>

\* The step without the shift of the running value.
HashStepWithoutShift(a, b) ==
    Xor32(dfu_hash_t1[Xor8(ByteOf(a, 0), b) + 1], a)

\* a = dfu_hash_t1[(a & 0xFF) ^ ((unsigned char)b)] ^ (a >> 8)
dfu_hash_step(a, b) ==
    Xor32(dfu_hash_t1[Xor8(ByteOf(a, 0), b) + 1], Shr8(a))

\* unsigned char dfu_xbuf[12]
dfu_xbuf == <<255, 255, 255, 255, 172, 5, 0, 1, 85, 70, 68, 16>>

----------------------------------------------------------------------------
(* The buffers a caller passes in.                                         *)

BufferIds == {0, 1}

\* Byte k of buffer b.
BufferByte(b, k) == (b * 89 + k * (2 * b + 3) + (k \div 251)) % 256

\* for (j = 0; j < size; j++) dfu_hash_step(h1, buffer[off + j]), as the
\* left-to-right fold over the bytes off .. off+size-1 of buffer b.  The
\* range is halved so that the evaluation nests only log(size) deep, and
\* the left half's word is evaluated before the right half starts from it.
RECURSIVE HashBuffer(_, _, _, _)
HashBuffer(h, b, off, size) ==
    IF size = 0 THEN h
    ELSE IF size = 1 THEN dfu_hash_step(h, BufferByte(b, off))
    ELSE LET half == size \div 2
             left == HashBuffer(h, b, off, half)
         IN  IF IsWord(left)
             THEN HashBuffer(left, b, off + half, size - half)
             ELSE left

\* The twelve steps over dfu_xbuf[j*6 + 0..5], j = 0, 1.
RECURSIVE HashTrailer(_, _)
HashTrailer(h, k) ==
    IF k > 12 THEN h
    ELSE LET next == dfu_hash_step(h, dfu_xbuf[k])
         IN  IF IsWord(next) THEN HashTrailer(next, k + 1) ELSE next

\* The four bytes stored from the most significant byte down.
ChecksumBytesBigEndian(h) ==
    <<ByteOf(h, 3), ByteOf(h, 2), ByteOf(h, 1), ByteOf(h, 0)>>

\* newbuf[size+12 .. size+15]
ChecksumBytes(h) == <<ByteOf(h, 0), ByteOf(h, 1), ByteOf(h, 2), ByteOf(h, 3)>>

----------------------------------------------------------------------------
(* The USB stack.                                                          *)

\* What irecv_control_transfer may return for a request of wLength bytes:
\* an error, the full length, nothing, or the length less 16.
ControlResults(wLength) ==
    {-1, wLength} \cup {n \in {0, wLength - 16} : n >= 0 /\ n < wLength}

\* What irecv_bulk_transfer may do: return 0 or an error, and store the
\* full length or 0 in *transferred, or leave it as it was.
BulkResults(length, transferred) ==
    {[ret |-> r, transferred |-> t] : r \in {0, -1},
                                      t \in {length, 0, transferred}}

\* What the device may answer to the status request: six bytes with the
\* status in byte 4, or a failed transfer.
StatusReplies ==
    {[n |-> 6, byte4 |-> 5], [n |-> 6, byte4 |-> 4], [n |-> -1, byte4 |-> 0]}

\* The entries of wire.  The data of a transfer to the device is the
\* bytes off .. of the caller's buffer followed by tail, wLength (length)
\* bytes in all; result is what the USB stack returned.
ControlXfer(bmRequestType, bRequest, wValue, wLength, off, tail, result) ==
    [xfer |-> "control", bmRequestType |-> bmRequestType,
     bRequest |-> bRequest, wValue |-> wValue, wLength |-> wLength,
     off |-> off, tail |-> tail, result |-> result]

BulkXfer(endpoint, length, off, result) ==
    [xfer |-> "bulk", endpoint |-> endpoint, length |-> length, off |-> off,
     result |-> result]

ResetXfer == [xfer |-> "reset"]

\* A status call that takes byte 4 whatever the transfer returned.
StatusOfAnyTransfer(reply) ==
    [status |-> reply.byte4, error |-> IRECV_E_SUCCESS]

\* irecv_get_status on a live session, given the device's answer.
irecv_get_status(reply) ==
    IF reply.n # 6
    THEN [status |-> 0, error |-> IRECV_E_USB_STATUS]
    ELSE [status |-> reply.byte4, error |-> IRECV_E_SUCCESS]

StatusXfer(reply) == ControlXfer(161, 3, 0, 6, 0, <<>>, reply.n)

----------------------------------------------------------------------------
(* irecv_send_buffer.                                                      *)

SEND_PACKET_SIZE_RECOVERY == 32768
SEND_PACKET_SIZE_DFU == 2048
RECV_PACKET_SIZE_RECOVERY == 8192
RECV_PACKET_SIZE_DFU == 2048
DFU_STATUS_READY == 5
RETRY_LIMIT == 20
FINISH_POLLS == 3

\* The test that takes only the first DFU product id for DFU.
IsNotFirstDfuMode(c) == c.mode # kDfuMode

IsRecoveryMode(c) == c.mode # kDfuMode /\ c.mode # kDfuMode2

\* The lengths a caller passes for packets of packet_size bytes.
Lengths(packet_size) ==
    {k * packet_size + d : k \in 0..MaxFullPackets,
                           d \in {0, 1, packet_size - 1}}

\* The initiating transfer judged by its sign alone.
InitErrorNegativeOnly(recovery_mode, r) ==
    IF recovery_mode
    THEN (IF r = 0 THEN IRECV_E_SUCCESS ELSE RawError)
    ELSE (IF r >= 0 THEN IRECV_E_SUCCESS ELSE IRECV_E_USB_UPLOAD)

\* The error irecv_send_buffer takes from the transfer that initiates the
\* upload, which returned r.
InitError(recovery_mode, r) ==
    IF recovery_mode
    THEN (IF r = 0 THEN IRECV_E_SUCCESS ELSE RawError)
    ELSE (IF r = 1 THEN IRECV_E_SUCCESS ELSE IRECV_E_USB_UPLOAD)

\* The comparison that catches a failed transfer but not a short one.
SizeMismatchErrorsOnly(bytes, size) == bytes < 0

\* if (bytes != size) return IRECV_E_USB_UPLOAD
SizeMismatch(bytes, size) == bytes # size

Return(e) ==
    /\ pc' = "done"
    /\ ret' = e

\* The plan that forgets the packet of the remainder.
PacketPlanWithoutRemainder(length, packet_size) ==
    LET last == length % packet_size
        packets == length \div packet_size
    IN  IF last # 0
        THEN [last |-> last, packets |-> packets]
        ELSE [last |-> packet_size, packets |-> packets]

\* last = length % packet_size; packets = length / packet_size;
\* if (last != 0) packets++; else last = packet_size;
PacketPlan(length, packet_size) ==
    LET last == length % packet_size
        packets == length \div packet_size
    IN  IF last # 0
        THEN [last |-> last, packets |-> packets + 1]
        ELSE [last |-> packet_size, packets |-> packets]

\* int size = (i + 1) < packets ? packet_size : last
ChunkSize(l) == IF l.i + 1 < l.packets THEN l.packet_size ELSE l.last

\* event.progress = ((double)count / (double)length) * 100.0, kept as the
\* exact fraction <<numerator, denominator>>.
ProgressValue(count, length) == <<count * 100, length>>

\* A packet that is not reported.
EmitNoProgress(evs, count, length, label) == evs

\* The progress callback, when one is registered, is called with the event.
EmitProgress(evs, count, length, label) ==
    IF client.progress_callback # NULL
    THEN Append(evs, [type |-> IRECV_PROGRESS, data |-> label,
                      size |-> count,
                      progress |-> ProgressValue(count, length),
                      callback |-> client.progress_callback])
    ELSE evs

SendBufferCall ==
    /\ pc = "idle"
    /\ LET recovery_mode == IsRecoveryMode(client)
           packet_size == IF recovery_mode THEN SEND_PACKET_SIZE_RECOVERY
                                           ELSE SEND_PACKET_SIZE_DFU
       IN  \E buffer \in BufferIds, length \in Lengths(packet_size),
              dfuNotifyFinished \in BOOLEAN :
             LET plan == PacketPlan(length, packet_size)
             IN  /\ loc' = [fn |-> "irecv_send_buffer", buffer |-> buffer,
                            length |-> length,
                            dfuNotifyFinished |-> dfuNotifyFinished,
                            recovery_mode |-> recovery_mode,
                            packet_size |-> packet_size,
                            last |-> plan.last, packets |-> plan.packets,
                            i |-> 0, size |-> 0, count |-> 0, status |-> 0,
                            bytes |-> 0, h1 |-> HashSeed,
                            error |-> IRECV_E_SUCCESS, retry |-> 0]
                 /\ IF check_context(client) # IRECV_E_SUCCESS
                    THEN Return(IRECV_E_NO_DEVICE)
                    ELSE pc' = "sb_init" /\ ret' = "none"
    /\ wire' = <<>>
    /\ events' = <<>>
    /\ retryPolls' = 0
    /\ UNCHANGED <<hal, client, lastCall, lastSub>>

\* initiate transfer
SendBufferInit ==
    /\ pc = "sb_init"
    /\ \E r \in ControlResults(IF loc.recovery_mode THEN 0 ELSE 1) :
         LET error == InitError(loc.recovery_mode, r)
         IN  /\ wire' = Append(wire,
                          IF loc.recovery_mode
                          THEN ControlXfer(65, 0, 0, 0, 0, <<>>, r)
                          ELSE ControlXfer(161, 5, 0, 1, 0, <<>>, r))
             /\ loc' = [loc EXCEPT !.error = error]
             /\ IF error # IRECV_E_SUCCESS
                THEN Return(error)
                ELSE pc' = "sb_loop" /\ UNCHANGED ret
    /\ UNCHANGED <<hal, client, events, lastCall, lastSub, retryPolls>>

\* count += size, the progress event, and i++ of the for loop.
PacketDone(l) ==
    /\ loc' = [l EXCEPT !.count = l.count + l.size, !.i = l.i + 1]
    /\ events' = EmitProgress(events, l.count + l.size, l.length, "Uploading")
    /\ pc' = "sb_loop"
    /\ UNCHANGED ret

\* One packet in recovery mode: the bulk transfer and what follows it.
SendPacketBulk ==
    /\ pc = "sb_loop"
    /\ loc.i < loc.packets
    /\ loc.recovery_mode
    /\ LET size == ChunkSize(loc)
       IN  \E r \in BulkResults(size, loc.bytes) :
             LET l == [loc EXCEPT !.size = size, !.bytes = r.transferred,
                                  !.error = IF r.ret = 0 THEN IRECV_E_SUCCESS
                                                         ELSE RawError]
             IN  /\ wire' = Append(wire, BulkXfer(4, size,
                                                  loc.i * loc.packet_size,
                                                  r))
                 /\ IF SizeMismatch(l.bytes, l.size)
                    THEN loc' = l /\ Return(IRECV_E_USB_UPLOAD)
                                  /\ UNCHANGED events
                    ELSE IF l.error # IRECV_E_SUCCESS
                    THEN loc' = l /\ Return(l.error) /\ UNCHANGED events
                    ELSE PacketDone(l)
    /\ UNCHANGED <<hal, client, lastCall, lastSub, retryPolls>>

\* The bytes appended to the final DFU packet: dfu_xbuf, then h1 from its
\* least significant byte up.
DfuTail(h) == dfu_xbuf \o ChecksumBytes(h)

\* One packet in DFU mode: the checksum, the control transfer and the
\* comparison of its result with size.
SendPacketDfu ==
    /\ pc = "sb_loop"
    /\ loc.i < loc.packets
    /\ ~loc.recovery_mode
    /\ LET size == ChunkSize(loc)
           off == loc.i * loc.packet_size
           final == (loc.i + 1 = loc.packets)
       IN  \E h1 \in {IF final
                      THEN HashTrailer(HashBuffer(loc.h1, loc.buffer, off,
                                                  size), 1)
                      ELSE HashBuffer(loc.h1, loc.buffer, off, size)} :
             LET tail == IF final THEN DfuTail(h1) ELSE <<>>
                 sent == IF final THEN size + 16 ELSE size
             IN  \E r \in ControlResults(sent) :
                   /\ loc' = [loc EXCEPT !.h1 = h1, !.size = sent,
                                         !.bytes = r]
                   /\ wire' = Append(wire, ControlXfer(33, 1, loc.i, sent,
                                                       off, tail, r))
                   /\ IF SizeMismatch(r, sent)
                      THEN Return(IRECV_E_USB_UPLOAD)
                      ELSE pc' = "sb_status" /\ UNCHANGED ret
    /\ UNCHANGED <<hal, client, events, lastCall, lastSub, retryPolls>>

\* error = irecv_get_status(client, &status) after a DFU packet.
SendStatus ==
    /\ pc = "sb_status"
    /\ \E reply \in StatusReplies :
         LET st == irecv_get_status(reply)
             l == [loc EXCEPT !.status = st.status, !.error = st.error]
         IN  /\ wire' = Append(wire, StatusXfer(reply))
             /\ IF l.error # IRECV_E_SUCCESS
                THEN loc' = l /\ Return(l.error)
                              /\ UNCHANGED <<events, retryPolls>>
                ELSE IF l.status # DFU_STATUS_READY
                THEN /\ loc' = [l EXCEPT !.retry = 0]
                     /\ pc' = "sb_retry"
                     /\ retryPolls' = 0
                     /\ UNCHANGED <<events, ret>>
                ELSE PacketDone(l) /\ UNCHANGED retryPolls
    /\ UNCHANGED <<hal, client, lastCall, lastSub>>

\* One turn of while (retry < 20): the poll, then break or sleep(1); retry
\* is not assigned in the loop.  When the loop condition fails, the test
\* of status after the loop.  The polls of this loop are counted in
\* retryPolls and not listed in wire.
SendRetry ==
    /\ pc = "sb_retry"
    /\ \E reply \in StatusReplies :
         IF loc.retry < RETRY_LIMIT
         THEN LET st == irecv_get_status(reply)
                  l == [loc EXCEPT !.status = st.status]
              IN  IF l.status = DFU_STATUS_READY
                  THEN PacketDone(l) /\ retryPolls' = 0
                  ELSE /\ loc' = l
                       /\ retryPolls' = IF retryPolls < RETRY_LIMIT + PollSlack
                                        THEN retryPolls + 1
                                        ELSE retryPolls
                       /\ UNCHANGED <<pc, ret, events>>
         ELSE IF loc.status # DFU_STATUS_READY
              THEN Return(IRECV_E_USB_UPLOAD)
                   /\ UNCHANGED <<loc, events, retryPolls>>
              ELSE PacketDone(loc) /\ retryPolls' = 0
    /\ UNCHANGED <<hal, client, wire, lastCall, lastSub>>

\* After the last packet: the finalize packet when dfuNotifyFinished is
\* set on a DFU session, else the return.
SendFinish ==
    /\ pc = "sb_loop"
    /\ ~(loc.i < loc.packets)
    /\ IF loc.dfuNotifyFinished /\ ~loc.recovery_mode
       THEN \E r \in ControlResults(0) :
              /\ wire' = Append(wire, ControlXfer(33, 1, 0, 0, 0, <<>>, r))
              /\ loc' = [loc EXCEPT !.i = 0]
              /\ pc' = "sb_finish"
              /\ UNCHANGED ret
       ELSE Return(IRECV_E_SUCCESS) /\ UNCHANGED <<wire, loc>>
    /\ UNCHANGED <<hal, client, events, lastCall, lastSub, retryPolls>>

\* for (i = 0; i < 3; i++) error = irecv_get_status(...), then irecv_reset.
SendFinishStatus ==
    /\ pc = "sb_finish"
    /\ \E reply \in StatusReplies :
         LET st == irecv_get_status(reply)
             l == [loc EXCEPT !.status = st.status, !.error = st.error]
         IN  IF l.error # IRECV_E_SUCCESS
             THEN /\ loc' = l
                  /\ wire' = Append(wire, StatusXfer(reply))
                  /\ Return(l.error)
             ELSE IF l.i + 1 < FINISH_POLLS
             THEN /\ loc' = [l EXCEPT !.i = l.i + 1]
                  /\ wire' = Append(wire, StatusXfer(reply))
                  /\ UNCHANGED <<pc, ret>>
             ELSE /\ loc' = [l EXCEPT !.i = l.i + 1]
                  /\ wire' = wire \o <<StatusXfer(reply), ResetXfer>>
                  /\ Return(IRECV_E_SUCCESS)
    /\ UNCHANGED <<hal, client, events, lastCall, lastSub, retryPolls>>

----------------------------------------------------------------------------
(* irecv_recv_buffer.                                                      *)

RecvBufferCall ==
    /\ pc = "idle"
    /\ LET recovery_mode == IsRecoveryMode(client)
           packet_size == IF recovery_mode THEN RECV_PACKET_SIZE_RECOVERY
                                           ELSE RECV_PACKET_SIZE_DFU
       IN  \E length \in Lengths(packet_size) :
             LET plan == PacketPlan(length, packet_size)
             IN  /\ loc' = [fn |-> "irecv_recv_buffer", length |-> length,
                            recovery_mode |-> recovery_mode,
                            packet_size |-> packet_size,
                            last |-> plan.last, packets |-> plan.packets,
                            i |-> 0, size |-> 0, count |-> 0, bytes |-> 0]
                 /\ IF check_context(client) # IRECV_E_SUCCESS
                    THEN Return(IRECV_E_NO_DEVICE)
                    ELSE pc' = "rb_loop" /\ ret' = "none"
    /\ wire' = <<>>
    /\ events' = <<>>
    /\ retryPolls' = 0
    /\ UNCHANGED <<hal, client, lastCall, lastSub>>

RecvPacket ==
    /\ pc = "rb_loop"
    /\ loc.i < loc.packets
    /\ LET size == ChunkSize(loc)
       IN  \E r \in ControlResults(size) :
             /\ wire' = Append(wire, ControlXfer(161, 2, 0, size,
                                                 loc.i * loc.packet_size,
                                                 <<>>, r))
             /\ IF SizeMismatch(r, size)
                THEN /\ loc' = [loc EXCEPT !.size = size, !.bytes = r]
                     /\ Return(IRECV_E_USB_UPLOAD)
                     /\ UNCHANGED events
                ELSE /\ loc' = [loc EXCEPT !.size = size, !.bytes = r,
                                           !.count = loc.count + size,
                                           !.i = loc.i + 1]
                     /\ events' = EmitProgress(events, loc.count + size,
                                               loc.length, "Downloading")
                     /\ UNCHANGED <<pc, ret>>
    /\ UNCHANGED <<hal, client, lastCall, lastSub, retryPolls>>

RecvFinish ==
    /\ pc = "rb_loop"
    /\ ~(loc.i < loc.packets)
    /\ Return(IRECV_E_SUCCESS)
    /\ UNCHANGED <<hal, client, loc, wire, events, lastCall, lastSub,
                   retryPolls>>

----------------------------------------------------------------------------
(* The transfer engine on an open session.                                 *)

\* The sessions a transfer runs on: opened on any of the six product ids,
\* with no callback or after irecv_event_subscribe(IRECV_PROGRESS, "cb1").
TransferClients ==
    {NewClient(m) : m \in Modes}
      \cup {SetSlots(NewClient(m), SwitchSlots(IRECV_PROGRESS), "cb1") :
              m \in Modes}

InitTransfer ==
    /\ client \in TransferClients
    /\ pc = "idle"
    /\ loc = NoLocals
    /\ wire = <<>>
    /\ events = <<>>
    /\ ret = "none"
    /\ lastCall = NoCall
    /\ lastSub = [t \in EventTypes |-> NULL]
    /\ retryPolls = 0
    /\ hal = OpenHal

NextTransfer ==
    \/ SendBufferCall
    \/ SendBufferInit
    \/ SendPacketBulk
    \/ SendPacketDfu
    \/ SendStatus
    \/ SendRetry
    \/ SendFinish
    \/ SendFinishStatus
    \/ RecvBufferCall
    \/ RecvPacket
    \/ RecvFinish

SpecTransfer == InitTransfer /\ [][NextTransfer]_vars

----------------------------------------------------------------------------
(* irecv_send_command and the transport primitives.                        *)

IRECV_E_PIPE == "IRECV_E_PIPE"

\* The length of a command text is 0, 1, or 254 .. 256 + MaxCommandExcess.
COMMAND_LIMIT == 256
COMMAND_CUT == 255
CommandLengths == {0, 1} \cup (COMMAND_CUT - 1 .. COMMAND_LIMIT + MaxCommandExcess)

\* Character k (from 0) of the command text: never NUL.
CommandChar(k) == 1 + ((k * 7) % 255)

\* Byte k of the string `command` of n characters: the text, then its NUL.
CommandMemory(n, k) == IF k < n THEN CommandChar(k) ELSE 0

\* length = strlen(command); if (length >= 0x100) length = 0xFF
CommandLength(n) == IF n >= COMMAND_LIMIT THEN COMMAND_CUT ELSE n

\* The wLength bytes irecv_control_transfer reads at `command`.
CommandPayload(n, wLength) == [k \in 1..wLength |-> CommandMemory(n, k - 1)]

\* What irecv_send_command_raw returns when its control transfer, if it
\* made one, returned r: the result of the transfer is not looked at.
irecv_send_command_raw(r) == IRECV_E_SUCCESS

\* A callback whose return value is not looked at.
CallbackNeverStops(r) == FALSE

\* if (client->precommand_callback(client, &event)) return IRECV_E_SUCCESS
CallbackStops(r) == r # 0

\* What a callback may return.
CallbackReturns == {0, 1}

\* The call of a command callback, with the number of transfers made
\* before it.
CommandEvent(type, n, callback, r) ==
    [type |-> type, data |-> n, size |-> CommandLength(n),
     callback |-> callback, at |-> Len(wire), result |-> r]

\* irecv_send_command up to the send: check_context, the length, the
\* precommand callback.
SendCommandCall ==
    /\ pc = "idle"
    /\ \E n \in CommandLengths :
         /\ loc' = [fn |-> "irecv_send_command", command |-> n,
                    length |-> CommandLength(n), error |-> IRECV_E_SUCCESS]
         /\ IF check_context(client) # IRECV_E_SUCCESS
            THEN Return(IRECV_E_NO_DEVICE) /\ events' = <<>>
            ELSE IF client.precommand_callback # NULL
            THEN \E r \in CallbackReturns :
                   /\ events' = <<[CommandEvent(IRECV_PRECOMMAND, n,
                                                client.precommand_callback,
                                                r) EXCEPT !.at = 0]>>
                   /\ IF CallbackStops(r)
                      THEN Return(IRECV_E_SUCCESS)
                      ELSE pc' = "sc_send" /\ ret' = "none"
            ELSE events' = <<>> /\ pc' = "sc_send" /\ ret' = "none"
    /\ wire' = <<>>
    /\ UNCHANGED <<hal, client, lastCall, lastSub, retryPolls>>

\* error = irecv_send_command_raw(client, command) and the test of error.
SendCommandRaw ==
    /\ pc = "sc_send"
    /\ LET length == CommandLength(loc.command)
       IN  \E r \in (IF length > 0 THEN ControlResults(length + 1) ELSE {0}) :
             LET error == irecv_send_command_raw(r)
             IN  /\ wire' = IF length > 0
                            THEN Append(wire,
                                   ControlXfer(64, 0, 0, length + 1, 0,
                                               CommandPayload(loc.command,
                                                              length + 1),
                                               r))
                            ELSE wire
                 /\ loc' = [loc EXCEPT !.error = error]
                 /\ IF error # IRECV_E_SUCCESS /\ error # IRECV_E_PIPE
                    THEN Return(error)
                    ELSE pc' = "sc_post" /\ UNCHANGED ret
    /\ UNCHANGED <<hal, client, events, lastCall, lastSub, retryPolls>>

\* The postcommand callback and the return.
SendCommandPost ==
    /\ pc = "sc_post"
    /\ IF client.postcommand_callback # NULL
       THEN \E r \in CallbackReturns :
              events' = Append(events,
                          CommandEvent(IRECV_POSTCOMMAND, loc.command,
                                       client.postcommand_callback, r))
       ELSE UNCHANGED events
    /\ Return(IRECV_E_SUCCESS)
    /\ UNCHANGED <<hal, client, loc, wire, lastCall, lastSub, retryPolls>>

\* A call into the USB library, with the device handle it was given.
HalCall(fn, handle) == [xfer |-> "hal", fn |-> fn, handle |-> handle]

\* What a call of the USB library returns to a transport primitive: one of
\* `results` on a live handle; on a handle that is NULL the library reads
\* through it, and the call fails or the process stops.
HalResults(handle, results) ==
    IF handle = NULL
    THEN {[stopped |-> TRUE, r |-> 0], [stopped |-> FALSE, r |-> -1]}
    ELSE {[stopped |-> FALSE, r |-> n] : n \in results}

\* The int a transport primitive returns, as ret holds it.
RawResult(r) == ToString(r)

\* irecv_control_transfer: the call of the USB library on client->handle,
\* its result the return value.
ControlTransferCall ==
    /\ pc = "idle"
    /\ \E wLength \in {0, 6} :
       \E o \in HalResults(client.handle, ControlResults(wLength)) :
         /\ loc' = [fn |-> "irecv_control_transfer", wLength |-> wLength]
         /\ IF o.stopped
            THEN pc' = "stopped" /\ ret' = "none"
            ELSE Return(RawResult(o.r))
    /\ wire' = <<HalCall("libusb_control_transfer", client.handle)>>
    /\ events' = <<>>
    /\ UNCHANGED <<hal, client, lastCall, lastSub, retryPolls>>

\* irecv_bulk_transfer: libusb_bulk_transfer on client->handle, and
\* libusb_clear_halt when it failed.
BulkTransferCall ==
    /\ pc = "idle"
    /\ \E o \in HalResults(client.handle, {0, -1}) :
         /\ loc' = [fn |-> "irecv_bulk_transfer"]
         /\ wire' = <<HalCall("libusb_bulk_transfer", client.handle)>>
                      \o (IF ~o.stopped /\ o.r < 0
                          THEN <<HalCall("libusb_clear_halt", client.handle)>>
                          ELSE <<>>)
         /\ IF o.stopped
            THEN pc' = "stopped" /\ ret' = "none"
            ELSE Return(RawResult(o.r))
    /\ events' = <<>>
    /\ UNCHANGED <<hal, client, lastCall, lastSub, retryPolls>>

\* irecv_get_string_descriptor_ascii: libusb_get_string_descriptor_ascii
\* on client->handle.
StringDescriptorCall ==
    /\ pc = "idle"
    /\ \E o \in HalResults(client.handle, {-1, 0, 12}) :
         /\ loc' = [fn |-> "irecv_get_string_descriptor_ascii"]
         /\ IF o.stopped
            THEN pc' = "stopped" /\ ret' = "none"
            ELSE Return(RawResult(o.r))
    /\ wire' = <<HalCall("libusb_get_string_descriptor_ascii",
                         client.handle)>>
    /\ events' = <<>>
    /\ UNCHANGED <<hal, client, lastCall, lastSub, retryPolls>>

\* The sessions a command is sent on: with or without a live handle, with
\* or without callbacks for IRECV_PRECOMMAND and IRECV_POSTCOMMAND.
CommandClients ==
    {[NewClient(m) EXCEPT !.handle = h, !.precommand_callback = pre,
                          !.postcommand_callback = post] :
       m \in {kRecoveryMode2, kDfuMode}, h \in {"live", NULL},
       pre \in {NULL, "cb1"}, post \in {NULL, "cb2"}}

InitCommand ==
    /\ client \in CommandClients
    /\ pc = "idle"
    /\ loc = NoLocals
    /\ wire = <<>>
    /\ events = <<>>
    /\ ret = "none"
    /\ lastCall = NoCall
    /\ lastSub = [t \in EventTypes |-> NULL]
    /\ retryPolls = 0
    /\ hal = OpenHal

NextCommand ==
    \/ SendCommandCall
    \/ SendCommandRaw
    \/ SendCommandPost
    \/ ControlTransferCall
    \/ BulkTransferCall
    \/ StringDescriptorCall

SpecCommand == InitCommand /\ [][NextCommand]_vars

----------------------------------------------------------------------------
(* irecv_open, irecv_open_attempts and irecv_exit on libusb.               *)

IRECV_E_UNABLE_TO_CONNECT == "IRECV_E_UNABLE_TO_CONNECT"
IRECV_E_OUT_OF_MEMORY == "IRECV_E_OUT_OF_MEMORY"
IRECV_E_USB_CONFIGURATION == "IRECV_E_USB_CONFIGURATION"
IRECV_E_USB_INTERFACE == "IRECV_E_USB_INTERFACE"

\* *pclient = NULL: no session.
NoSession == [NewClient(NULL) EXCEPT !.handle = NULL]

\* The USB library after irecv_init: the context is live, nothing is open.
FreshHal == [context |-> "live", exits |-> 0, handles |-> 0, sessions |-> 0]

\* A call of the USB library made by irecv_open, and what it returned.
HalOp(fn, arg, result) ==
    [xfer |-> "hal", fn |-> fn, arg |-> arg, result |-> result]

\* What the USB library and the device do during one irecv_open: the
\* product id of the Apple device in the list (NULL when there is none),
\* whether libusb_open and malloc succeed, whether configuration 1 is
\* current, set, or refused, and per interface whether the claim and the
\* alternate setting go through.
ConfigOutcomes == {"current", "set", "fails"}
InterfaceOutcomes == {"ok", "claim_fails", "alt_fails"}
OpenEnvs ==
    [device : {NULL, kRecoveryMode2, kDfuMode}, open : BOOLEAN,
     malloc : BOOLEAN, config : ConfigOutcomes,
     iface0 : InterfaceOutcomes, iface1 : InterfaceOutcomes]

\* irecv_set_configuration(client, 1) on a live handle.
irecv_set_configuration(outcome) ==
    CASE outcome = "current" ->
           [error |-> IRECV_E_SUCCESS,
            calls |-> <<HalOp("libusb_get_configuration", 1, 0)>>]
      [] outcome = "set" ->
           [error |-> IRECV_E_SUCCESS,
            calls |-> <<HalOp("libusb_get_configuration", 1, 0),
                        HalOp("libusb_set_configuration", 1, 0)>>]
      [] outcome = "fails" ->
           [error |-> IRECV_E_USB_CONFIGURATION,
            calls |-> <<HalOp("libusb_get_configuration", 1, 0),
                        HalOp("libusb_set_configuration", 1, -1)>>]

\* irecv_set_interface(client, interface, alt_interface) on a live handle.
irecv_set_interface(outcome, interface) ==
    CASE outcome = "ok" ->
           [error |-> IRECV_E_SUCCESS,
            calls |-> <<HalOp("libusb_claim_interface", interface, 0),
                        HalOp("libusb_set_interface_alt_setting",
                              interface, 0)>>]
      [] outcome = "claim_fails" ->
           [error |-> IRECV_E_USB_INTERFACE,
            calls |-> <<HalOp("libusb_claim_interface", interface, -1)>>]
      [] outcome = "alt_fails" ->
           [error |-> IRECV_E_USB_INTERFACE,
            calls |-> <<HalOp("libusb_claim_interface", interface, 0),
                        HalOp("libusb_set_interface_alt_setting",
                              interface, -1)>>]

\* The interfaces of the mode: 0 then 1 on a device that is not in a DFU
\* mode, each result assigned to error in turn; 0 alone on a DFU device.
OpenInterfaces(mode, e) ==
    IF mode # kDfuMode /\ mode # kDfuMode2
    THEN LET first == irecv_set_interface(e.iface0, 0)
             second == irecv_set_interface(e.iface1, 1)
         IN  [error |-> second.error, calls |-> first.calls \o second.calls]
    ELSE irecv_set_interface(e.iface0, 0)

\* libusb_exit(libirecovery_context); the pointer is left as it is.
ReleaseContext(h) ==
    [h EXCEPT !.context = "released",
              !.exits = IF h.exits < 2 THEN h.exits + 1 ELSE h.exits]

\* irecv_open with the USB library in state h behaving as e: the error
\* returned, the session stored in *pclient, the library afterwards and
\* the calls made once the device was opened.
irecv_open(h, e) ==
    IF e.device = NULL
    THEN [error |-> IRECV_E_UNABLE_TO_CONNECT, client |-> NoSession,
          hal |-> h, calls |-> <<>>]
    ELSE IF ~e.open
    THEN [error |-> IRECV_E_UNABLE_TO_CONNECT, client |-> NoSession,
          hal |-> ReleaseContext(h),
          calls |-> <<HalOp("libusb_open", 0, -1)>>]
    ELSE IF ~e.malloc
    THEN [error |-> IRECV_E_OUT_OF_MEMORY, client |-> NoSession,
          hal |-> ReleaseContext(h),
          calls |-> <<HalOp("libusb_open", 0, 0),
                      HalOp("libusb_close", 0, 0)>>]
    ELSE LET opened == [h EXCEPT !.handles = h.handles + 1,
                                 !.sessions = h.sessions + 1]
             config == irecv_set_configuration(e.config)
             ifaces == OpenInterfaces(e.device, e)
             start == <<HalOp("libusb_open", 0, 0)>>
         IN  IF config.error # IRECV_E_SUCCESS
             THEN [error |-> config.error, client |-> NoSession,
                   hal |-> opened, calls |-> start \o config.calls]
             ELSE IF ifaces.error # IRECV_E_SUCCESS
             THEN [error |-> ifaces.error, client |-> NoSession,
                   hal |-> opened,
                   calls |-> start \o config.calls \o ifaces.calls]
             ELSE [error |-> IRECV_E_SUCCESS, client |-> NewClient(e.device),
                   hal |-> opened,
                   calls |-> start \o config.calls \o ifaces.calls
                               \o <<HalOp("libusb_get_string_descriptor_ascii",
                                          0, 0)>>]

\* The locals of a call that opens, after an irecv_open that behaved as e;
\* opens and failures count the calls of irecv_open and those that
\* returned an error, handles0, sessions0 and context0 are the USB library
\* as the last irecv_open found it.
AfterOpen(l, e) ==
    LET o == irecv_open(hal, e)
    IN  [l EXCEPT !.error = o.error, !.opens = l.opens + 1,
                  !.failures = IF o.error # IRECV_E_SUCCESS
                               THEN l.failures + 1 ELSE l.failures,
                  !.handles0 = hal.handles, !.sessions0 = hal.sessions,
                  !.context0 = hal.context]

OpenLocals(fn, attempts) ==
    [fn |-> fn, attempts |-> attempts, i |-> 0, opens |-> 0, sleeps |-> 0,
     failures |-> 0, error |-> IRECV_E_SUCCESS, handles0 |-> 0, sessions0 |-> 0,
     context0 |-> "live"]

\* irecv_open called by the application.
OpenCall ==
    /\ pc = "idle"
    /\ \E e \in OpenEnvs :
         LET o == irecv_open(hal, e)
         IN  /\ loc' = AfterOpen(OpenLocals("irecv_open", 1), e)
             /\ client' = o.client
             /\ hal' = o.hal
             /\ wire' = o.calls
             /\ Return(o.error)
    /\ events' = <<>>
    /\ UNCHANGED <<lastCall, lastSub, retryPolls>>

\* The loop that makes one turn too many.
AttemptsLeftInclusive(i, attempts) == i <= attempts

\* i < attempts
AttemptsLeft(i, attempts) == i < attempts

\* The attempts a caller asks for.
AttemptCounts == 0..MaxAttempts

OpenAttemptsCall ==
    /\ pc = "idle"
    /\ \E attempts \in AttemptCounts :
         loc' = OpenLocals("irecv_open_attempts", attempts)
    /\ pc' = "oa_loop"
    /\ ret' = "none"
    /\ wire' = <<>>
    /\ events' = <<>>
    /\ UNCHANGED <<hal, client, lastCall, lastSub, retryPolls>>

\* One turn of the loop of irecv_open_attempts: irecv_open, then sleep(1)
\* and i++ when it failed, the return when it succeeded.  On a context
\* that an earlier irecv_open released, the USB library reads freed
\* memory, and the process may stop instead.
OpenAttemptsTry ==
    /\ pc = "oa_loop"
    /\ AttemptsLeft(loc.i, loc.attempts)
    /\ \/ \E e \in OpenEnvs :
            LET o == irecv_open(hal, e)
                l == AfterOpen(loc, e)
            IN  /\ client' = o.client
                /\ hal' = o.hal
                /\ wire' = o.calls
                /\ IF o.error # IRECV_E_SUCCESS
                   THEN /\ loc' = [l EXCEPT !.sleeps = l.sleeps + 1,
                                            !.i = l.i + 1]
                        /\ UNCHANGED <<pc, ret>>
                   ELSE loc' = l /\ Return(IRECV_E_SUCCESS)
       \/ /\ hal.context # "live"
          /\ pc' = "stopped"
          /\ loc' = [loc EXCEPT !.opens = loc.opens + 1,
                                !.context0 = hal.context]
          /\ UNCHANGED <<client, hal, wire, ret>>
    /\ UNCHANGED <<events, lastCall, lastSub, retryPolls>>

\* The loop ran out: return IRECV_E_UNABLE_TO_CONNECT.
OpenAttemptsGiveUp ==
    /\ pc = "oa_loop"
    /\ ~AttemptsLeft(loc.i, loc.attempts)
    /\ Return(IRECV_E_UNABLE_TO_CONNECT)
    /\ UNCHANGED <<hal, client, loc, wire, events, lastCall, lastSub,
                   retryPolls>>

\* irecv_exit after the call: libusb_exit when libirecovery_context is
\* not NULL, then the pointer is set to NULL.  When an irecv_open has
\* released the context already, this releases it a second time, and the
\* process may stop.
ExitCall ==
    /\ pc = "done"
    /\ loc.fn \in {"irecv_open", "irecv_open_attempts"}
    /\ hal' = [ReleaseContext(hal) EXCEPT !.context = "none"]
    /\ pc' \in (IF hal.context = "live" THEN {"exited"}
                                        ELSE {"exited", "stopped"})
    /\ UNCHANGED <<client, loc, wire, events, ret, lastCall, lastSub,
                   retryPolls>>

InitOpen ==
    /\ client = NoSession
    /\ pc = "idle"
    /\ loc = NoLocals
    /\ wire = <<>>
    /\ events = <<>>
    /\ ret = "none"
    /\ lastCall = NoCall
    /\ lastSub = [t \in EventTypes |-> NULL]
    /\ retryPolls = 0
    /\ hal = FreshHal

NextOpen ==
    \/ OpenCall
    \/ OpenAttemptsCall
    \/ OpenAttemptsTry
    \/ OpenAttemptsGiveUp
    \/ ExitCall

SpecOpen == InitOpen /\ [][NextOpen]_vars

----------------------------------------------------------------------------
(* irecv_close and irecv_reconnect on libusb.                              *)

\* error = irecv_open_attempts(&new_client, 10)
RECONNECT_ATTEMPTS == 10

\* client->interface as irecv_open leaves it.
ClientInterface(c) ==
    IF c.mode # kDfuMode /\ c.mode # kDfuMode2 THEN 1 ELSE 0

\* The call of the disconnected callback by irecv_close, with the number
\* of calls of the USB library and the allocator made before it.
DisconnectEvent(callback, at, r) ==
    [type |-> IRECV_DISCONNECTED, data |-> NULL, size |-> 0, progress |-> 0,
     callback |-> callback, at |-> at, result |-> r]

\* What irecv_close does with the handle of session c, and free(client).
CloseCalls(c) ==
    (IF c.handle # NULL
     THEN (IF c.mode # kDfuMode
           THEN <<HalOp("libusb_release_interface", ClientInterface(c), 0)>>
           ELSE <<>>) \o <<HalOp("libusb_close", 0, 0)>>
     ELSE <<>>) \o <<HalOp("free", 0, 0)>>

\* A close that calls back only once the session is gone.
CloseEventsAfterRelease(c, at, r) ==
    IF c.disconnected_callback # NULL
    THEN <<DisconnectEvent(c.disconnected_callback,
                           at + Len(CloseCalls(c)), r)>>
    ELSE <<>>

\* if (client->disconnected_callback != NULL) ...: the callback is called
\* first, with `at` calls made before it; what it returns is not used.
CloseEvents(c, at, r) ==
    IF c.disconnected_callback # NULL
    THEN <<DisconnectEvent(c.disconnected_callback, at, r)>>
    ELSE <<>>

\* irecv_close(client) on a session that is allocated, with the USB
\* library in state h: the callbacks made, the calls made after them, the
\* memory of the session as free finds it and the library afterwards.
irecv_close(c, h, at, r) ==
    [events |-> CloseEvents(c, at, r),
     calls |-> CloseCalls(c),
     client |-> [c EXCEPT !.handle = NULL],
     hal |-> [h EXCEPT !.handles = IF c.handle # NULL /\ h.handles > 0
                                   THEN h.handles - 1 ELSE h.handles,
                       !.sessions = IF h.sessions > 0
                                    THEN h.sessions - 1 ELSE h.sessions]]

\* irecv_close called by the application on its open session.
CloseCall ==
    /\ pc = "idle"
    /\ \E r \in CallbackReturns :
         LET o == irecv_close(client, hal, 0, r)
         IN  /\ client' = o.client
             /\ hal' = o.hal
             /\ wire' = o.calls
             /\ events' = o.events
             /\ loc' = [fn |-> "irecv_close", old |-> client, closes |-> 1,
                        frees |-> 1, freed_reads |-> 0]
    /\ Return(IRECV_E_SUCCESS)
    /\ UNCHANGED <<lastCall, lastSub, retryPolls>>

\* irecv_close called again with the pointer of the session it freed: the
\* pointer is not NULL, so the callback slot and the handle are read from
\* freed memory and the memory is freed a second time.  The freed memory
\* may hold what irecv_close left in it ("stale"), or the bytes of a later
\* allocation, in which the handle reads as set ("reused"); or the read
\* stops the process.
CloseAgain ==
    /\ pc = "done"
    /\ loc.fn = "irecv_close"
    /\ loc.closes < MaxCloses
    /\ \E outcome \in {"stale", "reused", "stopped"},
          r \in CallbackReturns :
         IF outcome = "stopped"
         THEN /\ pc' = "stopped"
              /\ loc' = [loc EXCEPT !.closes = loc.closes + 1,
                                    !.freed_reads = loc.freed_reads + 1]
              /\ UNCHANGED <<client, hal, wire, events, ret>>
         ELSE LET c == IF outcome = "reused"
                       THEN [client EXCEPT !.handle = "live"]
                       ELSE client
                  o == irecv_close(c, hal, Len(wire), r)
              IN  /\ client' = o.client
                  /\ hal' = o.hal
                  /\ wire' = wire \o o.calls
                  /\ events' = events \o o.events
                  /\ loc' = [loc EXCEPT
                               !.closes = loc.closes + 1,
                               !.frees = loc.frees + 1,
                               !.freed_reads = loc.freed_reads + 1]
                  /\ UNCHANGED <<pc, ret>>
    /\ UNCHANGED <<lastCall, lastSub, retryPolls>>

\* A reconnect that leaves the old session as it is.
ReconnectLeavesOpen(c) == FALSE

\* if (check_context(client) == IRECV_E_SUCCESS) { irecv_close(client); }
ReconnectCloses(c) == check_context(c) = IRECV_E_SUCCESS

\* A reconnect that hands over the session as irecv_open made it.
CarryNothing(new_client, progress_callback) == new_client

\* new_client->progress_callback = progress_callback
CarryOver(new_client, progress_callback) ==
    [new_client EXCEPT !.progress_callback = progress_callback]

\* irecv_reconnect up to the call of irecv_open_attempts: the progress
\* callback is read, the session is closed, the pause is slept.  The
\* caller's session is gone; new_client is NULL.
ReconnectCall ==
    /\ pc = "idle"
    /\ \E initial_pause \in 0..MaxPause, r \in CallbackReturns :
         LET progress_callback == client.progress_callback
             o == IF ReconnectCloses(client)
                  THEN irecv_close(client, hal, 0, r)
                  ELSE [events |-> <<>>, calls |-> <<>>, client |-> client,
                        hal |-> hal]
             pause == IF initial_pause > 0
                      THEN <<HalOp("sleep", initial_pause, 0)>>
                      ELSE <<>>
         IN  /\ loc' = [old |-> client,
                        progress_callback |-> progress_callback,
                        initial_pause |-> initial_pause]
                         @@ OpenLocals("irecv_reconnect", RECONNECT_ATTEMPTS)
             /\ hal' = o.hal
             /\ wire' = o.calls \o pause
             /\ events' = o.events
    /\ client' = NoSession
    /\ pc' = "rc_loop"
    /\ ret' = "none"
    /\ UNCHANGED <<lastCall, lastSub, retryPolls>>

\* One turn of the loop of irecv_open_attempts inside irecv_reconnect:
\* irecv_open, then sleep(1) and i++ when it failed; when it succeeded the
\* progress callback is stored in the new session, which is returned.  On
\* a context that an earlier irecv_open released the process may stop.
ReconnectTry ==
    /\ pc = "rc_loop"
    /\ AttemptsLeft(loc.i, loc.attempts)
    /\ \/ \E t \in {[o |-> irecv_open(hal, e), l |-> AfterOpen(loc, e)] :
                      e \in OpenEnvs} :
            /\ hal' = t.o.hal
            /\ wire' = Append(wire, HalOp("irecv_open", loc.i, 0))
            /\ IF t.o.error # IRECV_E_SUCCESS
               THEN /\ loc' = [t.l EXCEPT !.sleeps = t.l.sleeps + 1,
                                          !.i = t.l.i + 1]
                    /\ UNCHANGED <<client, pc, ret>>
               ELSE /\ loc' = t.l
                    /\ client' = CarryOver(t.o.client,
                                           loc.progress_callback)
                    /\ Return("new_client")
       \/ /\ hal.context # "live"
          /\ pc' = "stopped"
          /\ loc' = [loc EXCEPT !.opens = loc.opens + 1,
                                !.context0 = hal.context]
          /\ UNCHANGED <<client, hal, wire, ret>>
    /\ UNCHANGED <<events, lastCall, lastSub, retryPolls>>

\* The loop ran out: irecv_open_attempts returns
\* IRECV_E_UNABLE_TO_CONNECT and irecv_reconnect returns NULL.
ReconnectGiveUp ==
    /\ pc = "rc_loop"
    /\ ~AttemptsLeft(loc.i, loc.attempts)
    /\ loc' = [loc EXCEPT !.error = IRECV_E_UNABLE_TO_CONNECT]
    /\ Return(NULL)
    /\ UNCHANGED <<hal, client, wire, events, lastCall, lastSub,
                   retryPolls>>

\* The open sessions an application closes or reconnects: a live handle,
\* with or without callbacks in three of the slots.
SessionClients ==
    {[NewClient(m) EXCEPT !.progress_callback = progress,
                          !.disconnected_callback = disconnected,
                          !.received_callback = received] :
       m \in {kRecoveryMode2, kDfuMode},
       progress \in {NULL} \cup Callbacks,
       disconnected \in {NULL, "cb1"}, received \in {NULL, "cb2"}}

InitSession ==
    /\ client \in SessionClients
    /\ pc = "idle"
    /\ loc = NoLocals
    /\ wire = <<>>
    /\ events = <<>>
    /\ ret = "none"
    /\ lastCall = NoCall
    /\ lastSub = [t \in EventTypes |-> NULL]
    /\ retryPolls = 0
    /\ hal = OpenHal

NextSession ==
    \/ CloseCall
    \/ CloseAgain
    \/ ReconnectCall
    \/ ReconnectTry
    \/ ReconnectGiveUp

SpecSession == InitSession /\ [][NextSession]_vars

----------------------------------------------------------------------------
(* irecv_execute_script, with irecv_read_file and irecv_receive.           *)

IRECV_E_FILE_NOT_FOUND == "IRECV_E_FILE_NOT_FOUND"

BUFFER_SIZE == 4096

\* The script files: up to MaxScriptLen characters.
ScriptFiles == UNION {[1..n -> {"#", "a", "\n"}] : n \in 0..MaxScriptLen}

\* irecv_read_file stores the file in a buffer of exactly its length, and
\* strtok reads it as a string: up to the first NUL byte, which lies
\* after the buffer.  The bytes between the end of the buffer and that
\* NUL are whatever the allocator left there.
OverreadTails == {[k \in 1..n |-> "x"] : n \in 0..MaxOverread}

\* strtok skips the delimiters in front of a token.
RECURSIVE SkipDelims(_, _)
SkipDelims(mem, pos) ==
    IF pos <= Len(mem) /\ mem[pos] = "\n"
    THEN SkipDelims(mem, pos + 1)
    ELSE pos

\* The position after the token that starts at pos.
RECURSIVE TokenEnd(_, _)
TokenEnd(mem, pos) ==
    IF pos <= Len(mem) /\ mem[pos] # "\n"
    THEN TokenEnd(mem, pos + 1)
    ELSE pos

\* strtok(..., "\n") with its saved position at pos: whether there is a
\* token, the token, and the position saved for the next call.
strtok(mem, pos) ==
    LET start == SkipDelims(mem, pos)
        end == TokenEnd(mem, start)
    IN  IF start > Len(mem)
        THEN [found |-> FALSE, line |-> <<>>, next |-> start]
        ELSE [found |-> TRUE, line |-> SubSeq(mem, start, end - 1),
              next |-> IF end <= Len(mem) THEN end + 1 ELSE end]

\* The bytes of the string `line`: its characters and the NUL.
LinePayload(line, wLength) ==
    [k \in 1..wLength |-> IF k <= Len(line) THEN line[k] ELSE "NUL"]

\* irecv_send_command(client, line) on session c, with the result r of
\* the control transfer and the returns pre and post of the callbacks:
\* the error returned, the transfers and the callbacks made.
ScriptCommand(c, line, r, pre, post, at) ==
    LET length == CommandLength(Len(line))
        xfer == ControlXfer(64, 0, 0, length + 1, 0,
                            LinePayload(line, length + 1), r)
        before == IF c.precommand_callback # NULL
                  THEN <<[type |-> IRECV_PRECOMMAND, data |-> line,
                          size |-> length,
                          callback |-> c.precommand_callback, at |-> at,
                          result |-> pre]>>
                  ELSE <<>>
        after == IF c.postcommand_callback # NULL
                 THEN <<[type |-> IRECV_POSTCOMMAND, data |-> line,
                         size |-> length,
                         callback |-> c.postcommand_callback, at |-> at + 1,
                         result |-> post]>>
                 ELSE <<>>
        error == irecv_send_command_raw(r)
    IN  IF check_context(c) # IRECV_E_SUCCESS
        THEN [error |-> IRECV_E_NO_DEVICE, calls |-> <<>>, events |-> <<>>]
        ELSE IF c.precommand_callback # NULL /\ CallbackStops(pre)
        THEN [error |-> IRECV_E_SUCCESS, calls |-> <<>>, events |-> before]
        ELSE IF error # IRECV_E_SUCCESS /\ error # IRECV_E_PIPE
        THEN [error |-> error, calls |-> <<xfer>>, events |-> before]
        ELSE [error |-> IRECV_E_SUCCESS, calls |-> <<xfer>>,
              events |-> before \o after]

\* One irecv_bulk_transfer of irecv_receive: what it returned, the bytes
\* it stored, and what the received callback returned if it was called.
LastReads(c) ==
    {[ret |-> -1, bytes |-> 0, stop |-> 0],
     [ret |-> -1, bytes |-> 1, stop |-> 0],
     [ret |-> 0, bytes |-> 0, stop |-> 0],
     [ret |-> 0, bytes |-> 1, stop |-> 0]}
      \cup (IF c.received_callback # NULL
            THEN {[ret |-> 0, bytes |-> BUFFER_SIZE, stop |-> 1]}
            ELSE {})

\* Whether the loop of irecv_receive ends with this read.
ReceiveEnds(c, read) ==
    \/ read.ret # 0
    \/ read.bytes <= 0
    \/ c.received_callback # NULL /\ CallbackStops(read.stop)
    \/ read.bytes < BUFFER_SIZE

\* The reads of one irecv_receive: full buffers for which the loop goes
\* on, then the read that ends it.
ReceiveRuns(c) ==
    {run \in {[k \in 1..n + 1 |->
                  IF k <= n
                  THEN [ret |-> 0, bytes |-> BUFFER_SIZE, stop |-> 0]
                  ELSE last] :
                n \in 0..MaxDrainChunks, last \in LastReads(c)} :
       \A k \in 1..Len(run) : ReceiveEnds(c, run[k]) <=> k = Len(run)}

\* A received event for every read, whatever it returned.
ReceiveEventsOfAllReads(c, run, at) ==
    [k \in 1..Len(run) |->
       [type |-> IRECV_RECEIVED, data |-> "buffer", size |-> run[k].bytes,
        callback |-> c.received_callback, at |-> at + k,
        result |-> run[k].stop]]

\* The received events of a run of reads made after `at` transfers.
RECURSIVE ReceiveEvents(_, _, _)
ReceiveEvents(c, run, at) ==
    IF run = <<>>
    THEN <<>>
    ELSE (IF Head(run).ret = 0 /\ Head(run).bytes > 0
             /\ c.received_callback # NULL
          THEN <<[type |-> IRECV_RECEIVED, data |-> "buffer",
                  size |-> Head(run).bytes,
                  callback |-> c.received_callback, at |-> at + 1,
                  result |-> Head(run).stop]>>
          ELSE <<>>) \o ReceiveEvents(c, Tail(run), at + 1)

\* irecv_receive(client) on session c when the device behaves as `run`:
\* the error returned is IRECV_E_SUCCESS however the reads end.
irecv_receive(c, run, at) ==
    IF check_context(c) # IRECV_E_SUCCESS
    THEN [error |-> IRECV_E_NO_DEVICE, calls |-> <<>>, events |-> <<>>]
    ELSE [error |-> IRECV_E_SUCCESS,
          calls |-> [k \in 1..Len(run) |->
                       BulkXfer(129, BUFFER_SIZE, 0,
                                [ret |-> run[k].ret,
                                 transferred |-> run[k].bytes])],
          events |-> ReceiveEvents(c, run, at)]

\* irecv_execute_script up to the first strtok: check_context, then
\* irecv_read_file, which fails when the file cannot be read.
ScriptCall ==
    /\ pc = "idle"
    /\ \E file \in ScriptFiles, tail \in OverreadTails, read \in BOOLEAN :
         /\ loc' = [fn |-> "irecv_execute_script", file |-> file,
                    tail |-> tail, read |-> read,
                    token |-> strtok(file \o tail, 1),
                    commands |-> 0, receives |-> 0,
                    error |-> IRECV_E_SUCCESS]
         /\ IF check_context(client) # IRECV_E_SUCCESS
            THEN Return(IRECV_E_NO_DEVICE)
            ELSE IF ~read
            THEN Return(IRECV_E_FILE_NOT_FOUND)
            ELSE pc' = "es_line" /\ ret' = "none"
    /\ wire' = <<>>
    /\ events' = <<>>
    /\ UNCHANGED <<hal, client, lastCall, lastSub, retryPolls>>

\* line = strtok(NULL, "\n")
NextToken(l) ==
    [l EXCEPT !.token = strtok(l.file \o l.tail, l.token.next)]

\* A line that starts with '#': nothing is sent.
ScriptSkip ==
    /\ pc = "es_line"
    /\ loc.token.found
    /\ loc.token.line[1] = "#"
    /\ loc' = NextToken(loc)
    /\ UNCHANGED <<hal, client, pc, wire, events, ret, lastCall, lastSub,
                   retryPolls>>

\* error = irecv_send_command(client, line) and the test of error.
ScriptSend ==
    /\ pc = "es_line"
    /\ loc.token.found
    /\ loc.token.line[1] # "#"
    /\ \E r \in {-1, CommandLength(Len(loc.token.line)) + 1},
          pre \in CallbackReturns, post \in CallbackReturns :
         LET o == ScriptCommand(client, loc.token.line, r, pre, post,
                                Len(wire))
         IN  /\ wire' = wire \o o.calls
             /\ events' = events \o o.events
             /\ loc' = [loc EXCEPT !.commands = loc.commands + 1,
                                   !.error = o.error]
             /\ IF o.error # IRECV_E_SUCCESS
                THEN Return(o.error)
                ELSE pc' = "es_recv" /\ UNCHANGED ret
    /\ UNCHANGED <<hal, client, lastCall, lastSub, retryPolls>>

\* error = irecv_receive(client), the test of error, and the next strtok.
ScriptReceive ==
    /\ pc = "es_recv"
    /\ \E run \in ReceiveRuns(client) :
         LET o == irecv_receive(client, run, Len(wire))
         IN  /\ wire' = wire \o o.calls
             /\ events' = events \o o.events
             /\ IF o.error # IRECV_E_SUCCESS
                THEN /\ loc' = [loc EXCEPT !.receives = loc.receives + 1,
                                           !.error = o.error]
                     /\ Return(o.error)
                ELSE /\ loc' = [NextToken(loc) EXCEPT
                                  !.receives = loc.receives + 1,
                                  !.error = o.error]
                     /\ pc' = "es_line"
                     /\ UNCHANGED ret
    /\ UNCHANGED <<hal, client, lastCall, lastSub, retryPolls>>

\* strtok found no further line: return IRECV_E_SUCCESS.
ScriptEnd ==
    /\ pc = "es_line"
    /\ ~loc.token.found
    /\ Return(IRECV_E_SUCCESS)
    /\ UNCHANGED <<hal, client, loc, wire, events, lastCall, lastSub,
                   retryPolls>>

\* The sessions a script is run on: open, with or without a received
\* callback.
ScriptClients ==
    {[NewClient(kRecoveryMode2) EXCEPT !.received_callback = received] :
       received \in {NULL, "cb1"}}

InitScript ==
    /\ client \in ScriptClients
    /\ pc = "idle"
    /\ loc = NoLocals
    /\ wire = <<>>
    /\ events = <<>>
    /\ ret = "none"
    /\ lastCall = NoCall
    /\ lastSub = [t \in EventTypes |-> NULL]
    /\ retryPolls = 0
    /\ hal = OpenHal

NextScript ==
    \/ ScriptCall
    \/ ScriptSkip
    \/ ScriptSend
    \/ ScriptReceive
    \/ ScriptEnd

SpecScript == InitScript /\ [][NextScript]_vars

----------------------------------------------------------------------------
(* The identification getters and irecv_get_device.                        *)

\* The chip ids and the board ids of libirecovery.h.
ChipIds ==
    [CPID_IPHONE2G |-> 8900, CPID_IPHONE3GS |-> 8920, CPID_IPOD2G |-> 8720,
     CPID_IPOD3G |-> 8922, CPID_IPAD1G |-> 8930]
BoardIds ==
    [BDID_IPHONE2G |-> 0, BDID_IPHONE3G |-> 4, BDID_IPOD1G |-> 2,
     BDID_IPAD1G |-> 2, BDID_IPHONE4 |-> 0, BDID_IPOD4G |-> 8,
     BDID_APPLETV2 |-> 10, BDID_IPHONE42 |-> 6, BDID_IPHONE43 |-> 4]
DEVICE_UNKNOWN == "DEVICE_UNKNOWN"

\* The keys of the fields of client->serial.
CPID_KEY == <<"C", "P", "I", "D", ":">>
BDID_KEY == <<"B", "D", "I", "D", ":">>
ECID_KEY == <<"E", "C", "I", "D", ":">>

\* The fields of a serial string: a key and what follows it (nothing, a
\* letter, a chip id, a board id with or without a space in front,
\* hexadecimal digits); or, as a device in the second DFU mode reports it,
\* digits without a key.
SerialFields ==
    {key \o value :
       key \in {CPID_KEY, BDID_KEY, ECID_KEY},
       value \in {<<>>, <<"x">>, <<"8", "9", "3", "0">>,
                  <<"8", "9", "0", "0">>, <<"8", "9", "2", "0">>, <<"7">>,
                  <<"0">>, <<"2">>, <<" ", "4">>, <<"1", "F">>}}
      \cup {<<"8", "9", "3", "0", "1">>, <<"8", "9", "3">>,
            <<"x", "8", "9", "3", "0">>}

\* The strings of up to n fields, a space between two fields.
RECURSIVE SerialsOf(_)
SerialsOf(n) ==
    IF n = 0
    THEN {<<>>}
    ELSE SerialsOf(n - 1) \cup SerialFields
           \cup {s \o <<" ">> \o f : s \in SerialsOf(n - 1) \ {<<>>},
                                   f \in SerialFields}

\* The digits sscanf accepts and their values, for %d and for %X.
HexDigits ==
    <<"0", "1", "2", "3", "4", "5", "6", "7", "8", "9", "A", "B", "C", "D",
      "E", "F">>

\* A search that finds the key only at the start of the string.
strstrAtStart(s, key) ==
    IF Len(s) >= Len(key) /\ SubSeq(s, 1, Len(key)) = key THEN 1 ELSE 0

\* strstr(s, key): the position of the first occurrence of key in s, 0
\* for NULL.
strstr(s, key) ==
    LET found == {p \in 1..Len(s) - Len(key) + 1 :
                    SubSeq(s, p, p + Len(key) - 1) = key}
    IN  IF found = {} THEN 0 ELSE CHOOSE p \in found : \A q \in found : p <= q

\* A conversion skips the white space in front of the number.
RECURSIVE SkipSpace(_, _)
SkipSpace(s, pos) ==
    IF pos <= Len(s) /\ s[pos] = " " THEN SkipSpace(s, pos + 1) ELSE pos

\* The digits from pos on, read into acc; n counts them.
RECURSIVE ScanDigits(_, _, _, _, _)
ScanDigits(s, pos, base, acc, n) ==
    IF pos <= Len(s) /\ \E i \in 1..base : HexDigits[i] = s[pos]
    THEN ScanDigits(s, pos + 1, base,
                    acc * base
                      + (CHOOSE i \in 1..base : HexDigits[i] = s[pos]) - 1,
                    n + 1)
    ELSE [n |-> n, value |-> acc]

\* sscanf(s + pos, "%d", &out) and sscanf(s + pos, "%qX", &out) on strings
\* without sign characters and without the prefix 0x: the number of
\* conversions made, and the value stored when there is one.
sscanf(s, pos, base) ==
    LET t == ScanDigits(s, SkipSpace(s, pos), base, 0, 0)
    IN  [n |-> IF t.n > 0 THEN 1 ELSE 0, value |-> t.value]

\* A copy that takes the whole serial string.
FirstCharsAll(s, n) == s

\* strncpy(s_cpid, client->serial, 4) into a zeroed buffer.
FirstChars(s, n) == SubSeq(s, 1, IF Len(s) < n THEN Len(s) ELSE n)

\* A getter with the key `key` and the conversion `base` on session c,
\* when *out held `before` at the call: the error returned and *out
\* afterwards.  The result of sscanf is not looked at; when it converts
\* nothing, *out is left as it was.
KeyedGetter(c, key, base, before) ==
    LET p == strstr(c.serial, key)
        t == sscanf(c.serial, p + Len(key), base)
    IN  IF check_context(c) # IRECV_E_SUCCESS
        THEN [error |-> IRECV_E_NO_DEVICE, out |-> before]
        ELSE IF p = 0
        THEN [error |-> IRECV_E_UNKNOWN_ERROR, out |-> 0]
        ELSE [error |-> IRECV_E_SUCCESS,
              out |-> IF t.n = 1 THEN t.value ELSE before]

\* irecv_get_cpid: in kDfuMode2 the first four characters are converted
\* and the error is returned either way; otherwise the field CPID: is
\* read.
irecv_get_cpid(c, before) ==
    IF check_context(c) # IRECV_E_SUCCESS
    THEN [error |-> IRECV_E_NO_DEVICE, out |-> before]
    ELSE IF c.mode = kDfuMode2
    THEN LET t == sscanf(FirstChars(c.serial, 4), 1, 10)
         IN  IF t.n # 1
             THEN [error |-> IRECV_E_UNKNOWN_ERROR, out |-> 0]
             ELSE [error |-> IRECV_E_UNKNOWN_ERROR, out |-> t.value]
    ELSE KeyedGetter(c, CPID_KEY, 10, before)

irecv_get_bdid(c, before) == KeyedGetter(c, BDID_KEY, 10, before)

irecv_get_ecid(c, before) == KeyedGetter(c, ECID_KEY, 16, before)

\* A lookup that does not look at the board id.
BoardModelOfChip(cpid, bdid) ==
    IF cpid = ChipIds.CPID_IPHONE2G
    THEN "DEVICE_IPHONE2G"
    ELSE "DEVICE_IPAD1G"

\* The inner switch (bdid) of the two chip ids that several devices share.
BoardModel(cpid, bdid) ==
    IF cpid = ChipIds.CPID_IPHONE2G
    THEN CASE bdid = BoardIds.BDID_IPHONE2G -> "DEVICE_IPHONE2G"
           [] bdid = BoardIds.BDID_IPHONE3G -> "DEVICE_IPHONE3G"
           [] bdid = BoardIds.BDID_IPOD1G -> "DEVICE_IPOD1G"
           [] OTHER -> DEVICE_UNKNOWN
    ELSE CASE bdid = BoardIds.BDID_IPAD1G -> "DEVICE_IPAD1G"
           [] bdid = BoardIds.BDID_IPHONE4 -> "DEVICE_IPHONE4"
           [] bdid = BoardIds.BDID_IPOD4G -> "DEVICE_IPOD4G"
           [] bdid = BoardIds.BDID_APPLETV2 -> "DEVICE_APPLETV2"
           [] bdid = BoardIds.BDID_IPHONE42 -> "DEVICE_IPHONE42"
           [] bdid = BoardIds.BDID_IPHONE43 -> "DEVICE_IPHONE43"
           [] OTHER -> DEVICE_UNKNOWN

\* irecv_get_device on session c: the error, the entry of irecv_devices
\* stored in *device ("unset" when nothing is stored), cpid and bdid as
\* the getters left them, and the number of calls of irecv_get_bdid.  A
\* getter has failed when it returned less than 0: every irecv_error_t but
\* IRECV_E_SUCCESS is negative.
irecv_get_device(c) ==
    LET chip == irecv_get_cpid(c, 0)
        board == irecv_get_bdid(c, 0)
        cpid == chip.out
        shared == cpid \in {ChipIds.CPID_IPHONE2G, ChipIds.CPID_IPAD1G}
        device_id ==
          CASE shared -> IF board.error # IRECV_E_SUCCESS
                         THEN DEVICE_UNKNOWN
                         ELSE BoardModel(cpid, board.out)
            [] cpid = ChipIds.CPID_IPHONE3GS -> "DEVICE_IPHONE3GS"
            [] cpid = ChipIds.CPID_IPOD2G -> "DEVICE_IPOD2G"
            [] cpid = ChipIds.CPID_IPOD3G -> "DEVICE_IPOD3G"
            [] OTHER -> DEVICE_UNKNOWN
    IN  IF chip.error # IRECV_E_SUCCESS
        THEN [error |-> IRECV_E_UNKNOWN_ERROR, device |-> "unset",
              cpid |-> cpid, bdid |-> 0, bdid_reads |-> 0,
              bdid_error |-> IRECV_E_SUCCESS]
        ELSE [error |-> IRECV_E_SUCCESS, device |-> device_id,
              cpid |-> cpid, bdid |-> IF shared THEN board.out ELSE 0,
              bdid_reads |-> IF shared THEN 1 ELSE 0,
              bdid_error |-> IF shared THEN board.error
                                       ELSE IRECV_E_SUCCESS]

\* What the caller's variable may hold before a getter is called.
BeforeValues == {0, 7}

GetCpidCall ==
    /\ pc = "idle"
    /\ \E before \in BeforeValues :
         LET o == irecv_get_cpid(client, before)
         IN  /\ loc' = [fn |-> "irecv_get_cpid", key |-> CPID_KEY,
                        base |-> 10, before |-> before, out |-> o.out]
             /\ Return(o.error)
    /\ UNCHANGED <<hal, client, wire, events, lastCall, lastSub,
                   retryPolls>>

GetBdidCall ==
    /\ pc = "idle"
    /\ \E before \in BeforeValues :
         LET o == irecv_get_bdid(client, before)
         IN  /\ loc' = [fn |-> "irecv_get_bdid", key |-> BDID_KEY,
                        base |-> 10, before |-> before, out |-> o.out]
             /\ Return(o.error)
    /\ UNCHANGED <<hal, client, wire, events, lastCall, lastSub,
                   retryPolls>>

GetEcidCall ==
    /\ pc = "idle"
    /\ \E before \in BeforeValues :
         LET o == irecv_get_ecid(client, before)
         IN  /\ loc' = [fn |-> "irecv_get_ecid", key |-> ECID_KEY,
                        base |-> 16, before |-> before, out |-> o.out]
             /\ Return(o.error)
    /\ UNCHANGED <<hal, client, wire, events, lastCall, lastSub,
                   retryPolls>>

GetDeviceCall ==
    /\ pc = "idle"
    /\ LET o == irecv_get_device(client)
       IN  /\ loc' = [fn |-> "irecv_get_device", device |-> o.device,
                      cpid |-> o.cpid, bdid |-> o.bdid,
                      bdid_reads |-> o.bdid_reads,
                      bdid_error |-> o.bdid_error]
           /\ Return(o.error)
    /\ UNCHANGED <<hal, client, wire, events, lastCall, lastSub,
                   retryPolls>>

\* The sessions that are identified: open, in a recovery mode or in the
\* second DFU mode, with the serial string irecv_open cached.
IdentClients ==
    {[serial |-> s] @@ NewClient(m) :
       m \in {kRecoveryMode2, kDfuMode2}, s \in SerialsOf(MaxFields)}

InitIdent ==
    /\ client \in IdentClients
    /\ pc = "idle"
    /\ loc = NoLocals
    /\ wire = <<>>
    /\ events = <<>>
    /\ ret = "none"
    /\ lastCall = NoCall
    /\ lastSub = [t \in EventTypes |-> NULL]
    /\ retryPolls = 0
    /\ hal = OpenHal

NextIdent ==
    \/ GetCpidCall
    \/ GetBdidCall
    \/ GetEcidCall
    \/ GetDeviceCall

SpecIdent == InitIdent /\ [][NextIdent]_vars

----------------------------------------------------------------------------
(* irecv_setenv, irecv_getenv and irecv_getret, and a device that keeps    *)
(* an environment (SpecEnv).                                               *)

\* The application makes up to MaxEnvCalls environment calls on a session.
MaxEnvCalls == 2

\* snprintf(command, sizeof(command) - 1, ...) with char command[256], and
\* the length of the read into response.
ENV_COMMAND_SIZE == 255
RESPONSE_LENGTH == 255

SETENV == <<"s", "e", "t", "e", "n", "v", " ">>
GETENV == <<"g", "e", "t", "e", "n", "v", " ">>

\* A const char * argument: NULL, or a string.
NullString == [null |-> TRUE, text |-> <<>>]
String(text) == [null |-> FALSE, text |-> text]

EnvNames == {<<"f">>, <<"f", "o", "o">>}

\* The value of n characters: "barbar..."
EnvValue(n) ==
    [i \in 1..n |-> IF i % 3 = 1 THEN "b" ELSE IF i % 3 = 2 THEN "a" ELSE "r"]

\* The values passed with `name`: short ones, and those that bring the
\* command text "setenv name value" to 253 .. 255 + MaxCommandExcess
\* characters.
EnvValues(name) ==
    {EnvValue(n) : n \in {0, 3}}
      \cup {EnvValue(t - Len(SETENV) - Len(name) - 1) :
              t \in (COMMAND_CUT - 2) .. (COMMAND_CUT + MaxCommandExcess)}

\* snprintf(command, size, ...) into a zeroed buffer: at most size - 1
\* characters of the formatted text are stored.
snprintf(size, text) ==
    SubSeq(text, 1, IF Len(text) < size - 1 THEN Len(text) ELSE size - 1)

\* The device: it stores the value of each "setenv NAME VALUE" it
\* receives, NAME ending at the first space and VALUE at the NUL.
DeviceReceives(env, text) ==
    IF Len(text) >= Len(SETENV) /\ SubSeq(text, 1, Len(SETENV)) = SETENV
    THEN LET rest == SubSeq(text, Len(SETENV) + 1, Len(text))
             spaces == {i \in 1..Len(rest) : rest[i] = " "}
             cut == IF spaces = {} THEN Len(rest) + 1
                    ELSE CHOOSE i \in spaces : \A j \in spaces : i <= j
             name == SubSeq(rest, 1, cut - 1)
             value == SubSeq(rest, cut + 1, Len(rest))
         IN  IF name \in DOMAIN env THEN [env EXCEPT ![name] = value]
             ELSE env
    ELSE env

\* What the device answers to the read that follows the command `text`:
\* the stored value after "getenv NAME", nothing otherwise.
DeviceAnswers(env, text) ==
    IF /\ Len(text) >= Len(GETENV)
       /\ SubSeq(text, 1, Len(GETENV)) = GETENV
       /\ SubSeq(text, Len(GETENV) + 1, Len(text)) \in DOMAIN env
    THEN env[SubSeq(text, Len(GETENV) + 1, Len(text))]
    ELSE <<>>

\* irecv_send_command_raw(client, command): the transfer it makes, if any,
\* when the USB stack returns r.
RawCommandCalls(command, r) ==
    LET length == CommandLength(Len(command))
    IN  IF length > 0
        THEN <<ControlXfer(64, 0, 0, length + 1, 0,
                           LinePayload(command, length + 1), r)>>
        ELSE <<>>

\* The command text the device received, if the transfer was complete.
Delivered(command, r) ==
    IF Len(command) > 0 /\ r = CommandLength(Len(command)) + 1
    THEN SubSeq(command, 1, CommandLength(Len(command)))
    ELSE <<>>

\* irecv_setenv(client, variable, value) with the result r of the control
\* transfer: the error returned, the transfers made and the environment
\* of the device afterwards.
irecv_setenv(c, variable, value, env, r) ==
    LET command == snprintf(ENV_COMMAND_SIZE,
                            SETENV \o variable.text \o <<" ">> \o value.text)
        error == irecv_send_command_raw(r)
    IN  IF check_context(c) # IRECV_E_SUCCESS
        THEN [error |-> IRECV_E_NO_DEVICE, calls |-> <<>>, env |-> env]
        ELSE IF variable.null \/ value.null
        THEN [error |-> IRECV_E_UNKNOWN_ERROR, calls |-> <<>>, env |-> env]
        ELSE [error |-> error, calls |-> RawCommandCalls(command, r),
              env |-> DeviceReceives(env, Delivered(command, r))]

\* A read that stores nothing.
ResponseNotStored(answer, r) == <<>>

\* The string in the zeroed 256-byte buffer `response` after the read of
\* up to 255 bytes returned r and stored `answer`.
Response(answer, r) == IF r < 0 THEN <<>> ELSE SubSeq(answer, 1, r)

\* irecv_getenv(client, variable, &value) with the results r of the
\* command transfer and read of the read, and the result `response` of
\* malloc: the error returned, *value (a string, or NULL, or `before` when
\* it is not assigned) and the transfers made.
irecv_getenv(c, variable, before, env, r, read, response) ==
    LET command == snprintf(ENV_COMMAND_SIZE, GETENV \o variable.text)
        error == irecv_send_command_raw(r)
        answer == DeviceAnswers(env, Delivered(command, r))
        n == IF read < 0 THEN read ELSE Len(answer)
        xfer == ControlXfer(192, 0, 0, RESPONSE_LENGTH, 0, <<>>, n)
    IN  IF check_context(c) # IRECV_E_SUCCESS
        THEN [error |-> IRECV_E_NO_DEVICE, value |-> before, calls |-> <<>>]
        ELSE IF variable.null
        THEN [error |-> IRECV_E_UNKNOWN_ERROR, value |-> NullString,
              calls |-> <<>>]
        ELSE IF error = IRECV_E_PIPE
        THEN [error |-> IRECV_E_SUCCESS, value |-> NullString,
              calls |-> RawCommandCalls(command, r)]
        ELSE IF error # IRECV_E_SUCCESS
        THEN [error |-> error, value |-> NullString,
              calls |-> RawCommandCalls(command, r)]
        ELSE IF response = NULL
        THEN [error |-> IRECV_E_OUT_OF_MEMORY, value |-> NullString,
              calls |-> RawCommandCalls(command, r)]
        ELSE [error |-> IRECV_E_SUCCESS,
              value |-> String(Response(answer, n)),
              calls |-> RawCommandCalls(command, r) \o <<xfer>>]

\* The first bytes a device may answer to the read of irecv_getret.
ResponseBytes == {0, 1, 127, 128, 255}

\* (unsigned int)*response for the byte b at response, a char: its 32 bits
\* as <<high 16, low 16>>.  Whether char is signed is up to the build; a
\* signed char of 128 .. 255 is negative and converts to 2^32 - 256 + b.
CharToUnsigned(b, char_is_signed) ==
    IF char_is_signed /\ b >= 128 THEN <<65535, 65280 + b>> ELSE <<0, b>>

\* irecv_getret(client, &value) when malloc returned `response` and the
\* read returned r and stored the first byte b: the error returned, *value
\* and the transfer made.
irecv_getret(c, before, b, r, char_is_signed, response) ==
    IF check_context(c) # IRECV_E_SUCCESS
    THEN [error |-> IRECV_E_NO_DEVICE, value |-> before, calls |-> <<>>]
    ELSE IF response = NULL
    THEN [error |-> IRECV_E_OUT_OF_MEMORY, value |-> <<0, 0>>,
          calls |-> <<>>]
    ELSE [error |-> IRECV_E_SUCCESS,
          value |-> CharToUnsigned(IF r > 0 THEN b ELSE 0, char_is_signed),
          calls |-> <<ControlXfer(192, 0, 0, RESPONSE_LENGTH, 0, <<>>, r)>>]

SetenvCall ==
    /\ pc \in {"idle", "done"}
    /\ loc.calls < MaxEnvCalls
    /\ \E name \in EnvNames :
         \E variable \in {NullString, String(name)},
            value \in {NullString} \cup {String(v) : v \in EnvValues(name)} :
           \E r \in {-1, 0, 1 + Len(snprintf(ENV_COMMAND_SIZE,
                        SETENV \o name \o <<" ">> \o value.text))} :
           \E o \in {irecv_setenv(client, variable, value, hal.env, r)} :
             /\ loc' = [fn |-> "irecv_setenv", calls |-> loc.calls + 1,
                        variable |-> variable, value |-> value, r |-> r]
             /\ wire' = o.calls
             /\ hal' = [hal EXCEPT !.env = o.env]
             /\ Return(o.error)
    /\ UNCHANGED <<client, events, lastCall, lastSub, retryPolls>>

GetenvCall ==
    /\ pc \in {"idle", "done"}
    /\ loc.calls < MaxEnvCalls
    /\ \E name \in EnvNames :
         \E variable \in {NullString, String(name)},
            r \in {-1, 1 + Len(GETENV) + Len(name)},
            read \in {-1, 0}, response \in {"heap", NULL} :
           \E o \in {irecv_getenv(client, variable, String(<<"x">>),
                                  hal.env, r, read, response)} :
             /\ loc' = [fn |-> "irecv_getenv", calls |-> loc.calls + 1,
                        variable |-> variable, value |-> o.value, r |-> r,
                        read |-> read]
             /\ wire' = o.calls
             /\ Return(o.error)
    /\ UNCHANGED <<hal, client, events, lastCall, lastSub, retryPolls>>

GetretCall ==
    /\ pc \in {"idle", "done"}
    /\ loc.calls < MaxEnvCalls
    /\ \E b \in ResponseBytes, r \in {-1, RESPONSE_LENGTH},
          char_is_signed \in BOOLEAN, response \in {"heap", NULL} :
         \E o \in {irecv_getret(client, <<0, 7>>, b, r, char_is_signed,
                                response)} :
           /\ loc' = [fn |-> "irecv_getret", calls |-> loc.calls + 1,
                      variable |-> NullString, value |-> o.value, r |-> r,
                      byte |-> b, char_is_signed |-> char_is_signed]
           /\ wire' = o.calls
           /\ Return(o.error)
    /\ UNCHANGED <<hal, client, events, lastCall, lastSub, retryPolls>>

\* irecv_get_status(client, &status) called by the application, with
\* *status holding 7 before: the transfer may also end after 5 bytes, which
\* include byte 4, or after none.
GetStatusCall ==
    /\ pc \in {"idle", "done"}
    /\ loc.calls < MaxEnvCalls
    /\ \E reply \in StatusReplies
                     \cup {[n |-> 5, byte4 |-> 5], [n |-> 0, byte4 |-> 0]} :
         IF check_context(client) # IRECV_E_SUCCESS
         THEN /\ loc' = [fn |-> "irecv_get_status", calls |-> loc.calls + 1,
                         reply |-> reply, status |-> 0]
              /\ wire' = <<>>
              /\ Return(IRECV_E_NO_DEVICE)
         ELSE /\ loc' = [fn |-> "irecv_get_status", calls |-> loc.calls + 1,
                         reply |-> reply,
                         status |-> irecv_get_status(reply).status]
              /\ wire' = <<StatusXfer(reply)>>
              /\ Return(irecv_get_status(reply).error)
    /\ UNCHANGED <<hal, client, events, lastCall, lastSub, retryPolls>>

\* irecv_receive(client) called by the application.
ReceiveCall ==
    /\ pc \in {"idle", "done"}
    /\ loc.calls < MaxEnvCalls
    /\ \E run \in (IF check_context(client) = IRECV_E_SUCCESS
                    THEN ReceiveRuns(client) ELSE {<<>>}) :
         \E o \in {irecv_receive(client, run, 0)} :
           /\ loc' = [fn |-> "irecv_receive", calls |-> loc.calls + 1]
           /\ wire' = o.calls
           /\ events' = o.events
           /\ Return(o.error)
    /\ UNCHANGED <<hal, client, lastCall, lastSub, retryPolls>>

\* A session in a recovery mode, open, with or without a received
\* callback, or without a handle, and a device whose environment is empty.
InitEnv ==
    /\ client \in {NewClient(kRecoveryMode2),
                    [NewClient(kRecoveryMode2)
                       EXCEPT !.received_callback = "cb1"],
                    NoSession}
    /\ pc = "idle"
    /\ loc = [fn |-> "none", calls |-> 0]
    /\ wire = <<>>
    /\ events = <<>>
    /\ ret = "none"
    /\ lastCall = NoCall
    /\ lastSub = [t \in EventTypes |-> NULL]
    /\ retryPolls = 0
    /\ hal = [env |-> [name \in EnvNames |-> <<>>]] @@ OpenHal

NextEnv ==
    \/ SetenvCall
    \/ GetenvCall
    \/ GetretCall
    \/ GetStatusCall
    \/ ReceiveCall

SpecEnv == InitEnv /\ [][NextEnv]_vars


----------------------------------------------------------------------------
(* The operations of an open session, one after at most one call of the     *)
(* registry (SpecOps).                                                      *)

OpsSubscribe ==
    /\ lastCall = NoCall
    /\ \E type \in EventTypes \cup {UnrecognizedType}, callback \in Callbacks :
         irecv_event_subscribe(type, callback)

OpsUnsubscribe ==
    /\ lastCall = NoCall
    /\ \E type \in EventTypes \cup {UnrecognizedType} :
         irecv_event_unsubscribe(type)

OpsGetStatus == pc = "idle" /\ GetStatusCall

OpsReceive == pc = "idle" /\ ReceiveCall

\* The sessions as irecv_open leaves them, in a recovery mode and in a DFU
\* mode, with the serial string cached.
OpsClients ==
    {[serial |-> CPID_KEY \o <<"8", "9", "3", "0">>] @@ NewClient(m) :
       m \in {kRecoveryMode2, kDfuMode2}}

InitOps ==
    /\ client \in OpsClients
    /\ pc = "idle"
    /\ loc = [fn |-> "none", calls |-> 0]
    /\ wire = <<>>
    /\ events = <<>>
    /\ ret = "none"
    /\ lastCall = NoCall
    /\ lastSub = [t \in EventTypes |-> NULL]
    /\ retryPolls = 0
    /\ hal = OpenHal

NextOps ==
    \/ OpsSubscribe
    \/ OpsUnsubscribe
    \/ SendBufferCall
    \/ SendBufferInit
    \/ SendPacketBulk
    \/ SendPacketDfu
    \/ SendStatus
    \/ SendRetry
    \/ SendFinish
    \/ SendFinishStatus
    \/ RecvBufferCall
    \/ RecvPacket
    \/ RecvFinish
    \/ SendCommandCall
    \/ SendCommandRaw
    \/ SendCommandPost
    \/ GetCpidCall
    \/ GetBdidCall
    \/ GetEcidCall
    \/ GetDeviceCall
    \/ OpsGetStatus
    \/ OpsReceive

SpecOps == InitOps /\ [][NextOps]_vars


----------------------------------------------------------------------------
(* config_file_load (src/unnamed/part_000): the loader of configuration      *)
(* files and their include directives (SpecConfig).                          *)

MAX_INCLUDE_NESTING == 16

\* The file named "a" holds up to MaxDirectives top-level entries.
MaxDirectives == 2

\* The files that exist; any other name cannot be opened or read.
FileNames == {"a", "b"}

\* A top-level entry as config_file_parse meets it: `include "file";`,
\* another entry, or text that is an error of syntax.
Directives ==
    {[kind |-> "include", file |-> f] : f \in FileNames \cup {"none"}}
      \cup {[kind |-> "entry", file |-> NULL], [kind |-> "bad", file |-> NULL]}

SeqsUpTo(n) == UNION {[1..k -> Directives] : k \in 0..n}

\* The contents of the files: "b" holds at most one entry.
FileSystems ==
    {[f \in FileNames |-> IF f = "a" THEN a ELSE b] :
       a \in SeqsUpTo(MaxDirectives), b \in SeqsUpTo(1)}

\* The parse that is running: the innermost config_file_parse.
TopFrame == loc.stack[Len(loc.stack)]

\* What config_file_free may do: it frees the record of the file and then
\* stores into it (cfptr->filename = NULL, cfptr->mem = NULL), which is
\* undefined; the stores are harmless or they stop the process.
FreeOutcomes == {"harmless", "stopped"}

\* config_file_load(filename): config_file_load_internal(NULL, filename).
ConfigLoadCall ==
    /\ pc = "idle"
    /\ \E files \in FileSystems, filename \in FileNames \cup {"none"} :
         loc' = [fn |-> "config_file_load", files |-> files,
                 filename |-> filename, stack |-> <<>>, nestcnt |-> 0,
                 too_deep |-> FALSE, opened |-> 0]
    /\ pc' = "cf_load"
    /\ ret' = "none"
    /\ wire' = <<>>
    /\ events' = <<>>
    /\ UNCHANGED <<hal, client, lastCall, lastSub, retryPolls>>

\* config_file_load_internal(parent, filename) up to the call of
\* config_file_parse: the test of nestcnt, the file read whole, nestcnt++.
\* A failure is reported with config_file_error(parent, ...), which marks
\* the parse of the parent as failed, and NULL is returned.
ConfigLoadInternal ==
    /\ pc = "cf_load"
    /\ IF loc.nestcnt > MAX_INCLUDE_NESTING \/ loc.filename \notin FileNames
       THEN IF loc.stack = <<>>
            THEN /\ loc' = [loc EXCEPT
                              !.too_deep = loc.nestcnt > MAX_INCLUDE_NESTING]
                 /\ Return(NULL)
            ELSE /\ loc' = [loc EXCEPT
                              !.too_deep = @ \/ loc.nestcnt
                                                  > MAX_INCLUDE_NESTING,
                              !.stack[Len(loc.stack)].errored = TRUE]
                 /\ pc' = "cf_parse"
                 /\ UNCHANGED ret
       ELSE /\ loc' = [loc EXCEPT
                         !.nestcnt = @ + 1,
                         !.opened = @ + 1,
                         !.stack = Append(@, [file |-> loc.filename,
                                              pos |-> 1,
                                              errored |-> FALSE])]
            /\ pc' = "cf_parse"
            /\ UNCHANGED ret
    /\ UNCHANGED <<hal, client, wire, events, lastCall, lastSub, retryPolls>>

\* One top-level entry of the file being parsed: an include calls
\* config_file_load_internal(cf, ce->vardata), an error of syntax marks
\* the parse as failed.
ConfigParse ==
    /\ pc = "cf_parse"
    /\ ~TopFrame.errored
    /\ TopFrame.pos <= Len(loc.files[TopFrame.file])
    /\ LET d == loc.files[TopFrame.file][TopFrame.pos]
           top == Len(loc.stack)
       IN  CASE d.kind = "include" ->
                  /\ loc' = [loc EXCEPT !.filename = d.file]
                  /\ pc' = "cf_load"
             [] d.kind = "entry" ->
                  /\ loc' = [loc EXCEPT !.stack[top].pos = @ + 1]
                  /\ UNCHANGED pc
             [] d.kind = "bad" ->
                  /\ loc' = [loc EXCEPT !.stack[top].errored = TRUE]
                  /\ UNCHANGED pc
    /\ UNCHANGED <<hal, client, wire, events, ret, lastCall, lastSub,
                   retryPolls>>

\* The end of config_file_parse and the return of
\* config_file_load_internal: a failed parse frees its file with
\* config_file_free and returns NULL; nestcnt--; the including parse
\* fails on NULL and goes on to its next entry otherwise.
ConfigParseEnd ==
    /\ pc = "cf_parse"
    /\ TopFrame.errored \/ TopFrame.pos > Len(loc.files[TopFrame.file])
    /\ \E free \in (IF TopFrame.errored THEN FreeOutcomes ELSE {"none"}) :
         LET rest == SubSeq(loc.stack, 1, Len(loc.stack) - 1)
         IN  IF free = "stopped"
             THEN pc' = "stopped" /\ UNCHANGED <<loc, ret>>
             ELSE IF rest = <<>>
             THEN /\ loc' = [loc EXCEPT !.stack = rest, !.nestcnt = @ - 1]
                  /\ Return(IF TopFrame.errored THEN NULL ELSE "cf")
             ELSE /\ loc' = [loc EXCEPT
                               !.nestcnt = @ - 1,
                               !.stack =
                                 IF TopFrame.errored
                                 THEN [rest EXCEPT ![Len(rest)].errored = TRUE]
                                 ELSE [rest EXCEPT ![Len(rest)].pos = @ + 1]]
                  /\ pc' = "cf_parse"
                  /\ UNCHANGED ret
    /\ UNCHANGED <<hal, client, wire, events, lastCall, lastSub, retryPolls>>

InitConfig ==
    /\ client = NoSession
    /\ pc = "idle"
    /\ loc = NoLocals
    /\ wire = <<>>
    /\ events = <<>>
    /\ ret = "none"
    /\ lastCall = NoCall
    /\ lastSub = [t \in EventTypes |-> NULL]
    /\ retryPolls = 0
    /\ hal = OpenHal

NextConfig ==
    \/ ConfigLoadCall
    \/ ConfigLoadInternal
    \/ ConfigParse
    \/ ConfigParseEnd

SpecConfig == InitConfig /\ [][NextConfig]_vars


----------------------------------------------------------------------------
(* Properties of the event registry (SpecEvents).                          *)

\* C1: a subscribe or unsubscribe call for one of the six kinds sets the
\* slot of that kind to the callback (to NULL for unsubscribe) and leaves
\* the other five slots of the session as they were.
C1_CallTouchesOnlyOwnSlot ==
    [][\A t \in EventTypes :
          (lastCall'.op # "none" /\ lastCall'.type = t)
            => /\ client'[SlotOf[t]] = lastCall'.callback
               /\ \A s \in Slots \ {SlotOf[t]} : client'[s] = client[s]]_vars

\* C2: after any sequence of subscribe and unsubscribe calls every slot
\* holds the callback of the latest subscribe for its own kind, or NULL if
\* there was none or an unsubscribe for that kind came later.
C2_SlotsHoldLatestSubscribe ==
    \A t \in EventTypes : client[SlotOf[t]] = lastSub[t]

\* C3: subscribe and unsubscribe return success for each of the six kinds
\* and the unknown error exactly for a kind that is none of the six.
C3_ResultFollowsKind ==
    lastCall.op # "none"
      => /\ lastCall.type \in EventTypes <=> ret = IRECV_E_SUCCESS
         /\ lastCall.type \notin EventTypes <=> ret = IRECV_E_UNKNOWN_ERROR

----------------------------------------------------------------------------
(* Properties of the transfer engine (SpecTransfer).                       *)

Sending == loc.fn = "irecv_send_buffer"
Receiving == loc.fn = "irecv_recv_buffer"
DfuSending == Sending /\ ~IsRecoveryMode(client)

\* A DFU download request (0x21, request 1), a data packet when it carries
\* bytes and the finalize packet when it is empty.
IsDfuDownload(w) ==
    w.xfer = "control" /\ w.bmRequestType = 33 /\ w.bRequest = 1

\* The transfers that carry a packet of the buffer.
IsDataXfer(w) ==
    \/ w.xfer = "bulk" /\ w.endpoint = 4
    \/ IsDfuDownload(w) /\ w.wLength > 0
    \/ w.xfer = "control" /\ w.bmRequestType = 161 /\ w.bRequest = 2

DataXfers == SelectSeq(wire, IsDataXfer)

\* The bytes of the caller's buffer a data transfer carries.
DataBytes(w) == IF w.xfer = "bulk" THEN w.length ELSE w.wLength - Len(w.tail)

RECURSIVE SumDataBytes(_)
SumDataBytes(d) ==
    IF d = <<>> THEN 0 ELSE DataBytes(Head(d)) + SumDataBytes(Tail(d))

\* The packet size the mode calls for.
ModePacketSize ==
    IF Sending
    THEN (IF IsRecoveryMode(client) THEN 32768 ELSE 2048)
    ELSE (IF IsRecoveryMode(client) THEN 8192 ELSE 2048)

\* C4: in DFU mode the wait for status 5 after a packet is bounded: the
\* retry loop polls the status at most 20 times.
C4_RetryLoopPollsAtMostTwenty ==
    pc = "sb_retry" => retryPolls <= 20

\* C5: for every length L and the packet size P of the mode, the packets
\* sent (received) number ceil(L/P) when the call succeeds and never more,
\* packet k starts at byte (k-1)P, every packet but the last carries P
\* bytes, the last carries L mod P bytes, or P when P divides L, and the
\* bytes of all packets add up to L.
C5_PacketCountAndSizes ==
    (Sending \/ Receiving) =>
      LET P == ModePacketSize
          L == loc.length
          N == (L + P - 1) \div P
          d == DataXfers
      IN  /\ Len(d) <= N
          /\ \A k \in 1..Len(d) :
               /\ d[k].off = (k - 1) * P
               /\ k < N => DataBytes(d[k]) = P
               /\ k = N => DataBytes(d[k]) = IF L % P = 0 THEN P ELSE L % P
          /\ (pc = "done" /\ ret = IRECV_E_SUCCESS)
               => Len(d) = N /\ SumDataBytes(d) = L

\* A two-packet upload of 2049 bytes has returned success.
C5_Witness ==
    /\ pc = "done"
    /\ ret = IRECV_E_SUCCESS
    /\ Sending
    /\ loc.length = 2049
    /\ Len(DataXfers) = 2

\* The fixed twelve bytes of the trailer.
TrailerBytes == <<255, 255, 255, 255, 172, 5, 0, 1, 85, 70, 68, 16>>

\* The four bytes t[13..16], read as a little-endian 32-bit word.
LittleEndianWord(t) == <<t[15] + 256 * t[16], t[13] + 256 * t[14]>>

\* C6: in a DFU upload the last data packet, and no other packet, is
\* extended: its length is the chunk length plus 16, the chunk is followed
\* by the twelve trailer bytes and then by four bytes that are, in
\* little-endian order, the running checksum over all bytes of the buffer
\* in order and then the twelve trailer bytes.
C6_FinalPacketCarriesTrailer ==
    DfuSending =>
      LET P == 2048
          L == loc.length
          N == (L + P - 1) \div P
      IN  \A n \in 1..Len(wire) :
            IsDfuDownload(wire[n]) =>
              IF wire[n].wLength > 0 /\ wire[n].wValue + 1 = N
              THEN /\ wire[n].wLength = (L - (N - 1) * P) + 16
                   /\ Len(wire[n].tail) = 16
                   /\ SubSeq(wire[n].tail, 1, 12) = TrailerBytes
                   /\ LittleEndianWord(wire[n].tail) = loc.h1
                   /\ n = Len(wire)
                        => loc.h1 = HashTrailer(HashBuffer(HashSeed,
                                                           loc.buffer, 0, L),
                                                1)
              ELSE /\ wire[n].tail = <<>>
                   /\ wire[n].wLength \in {0, P}

\* The extended last packet of a two-packet DFU upload is on the wire.
C6_Witness ==
    /\ DfuSending
    /\ loc.length = 2049
    /\ Len(wire) = 4
    /\ wire[4].wLength = 17
    /\ wire[4].result = 17

\* h = table[(h XOR b) AND 0xFF] XOR (h >> 8)
ChecksumStep(h, b) ==
    Xor32(dfu_hash_t1[(Xor16(h[2], b) % 256) + 1], Shr8(h))

\* The checksum, from h on, of the bytes off .. off+size-1 of buffer b ...
RECURSIVE ChecksumOfBuffer(_, _, _, _)
ChecksumOfBuffer(h, b, off, size) ==
    IF size = 0 THEN h
    ELSE IF size = 1 THEN ChecksumStep(h, BufferByte(b, off))
    ELSE LET half == size \div 2
             left == ChecksumOfBuffer(h, b, off, half)
         IN  IF IsWord(left)
             THEN ChecksumOfBuffer(left, b, off + half, size - half)
             ELSE left

\* ... and of the bytes t[k..] of a sequence.
RECURSIVE ChecksumOfSeq(_, _, _)
ChecksumOfSeq(h, t, k) ==
    IF k > Len(t) THEN h
    ELSE LET next == ChecksumStep(h, t[k])
         IN  IF IsWord(next) THEN ChecksumOfSeq(next, t, k + 1) ELSE next

\* C7: the checksum starts at 0xFFFFFFFF, which is its value over no
\* bytes; every byte b takes it from h to
\* table[(h XOR b) AND 0xFF] XOR (h >> 8); and the four bytes in the
\* trailer are that running value itself, not inverted.
C7_ChecksumIsRawCrc ==
    DfuSending =>
      /\ DataXfers = <<>> => loc.h1 = <<65535, 65535>>
      /\ (wire # <<>> /\ IsDfuDownload(wire[Len(wire)])
            /\ wire[Len(wire)].wLength > 0)
           => LET w == wire[Len(wire)]
                  seen == w.off + DataBytes(w)
                  data == ChecksumOfBuffer(<<65535, 65535>>, loc.buffer, 0,
                                           seen)
              IN  IF w.tail = <<>>
                  THEN loc.h1 = data
                  ELSE LittleEndianWord(w.tail)
                         = ChecksumOfSeq(data, TrailerBytes, 1)

\* The first packet of a two-packet DFU upload and then its last packet
\* have gone out.
C7_Witness ==
    /\ DfuSending
    /\ loc.length = 4095
    /\ Len(wire) = 4
    /\ wire[4].tail # <<>>
    /\ loc.buffer = 1

\* C8: every progress event carries a percentage between 0 and 100.
C8_ProgressWithinHundred ==
    \A n \in 1..Len(events) :
        /\ events[n].progress[1] >= 0
        /\ events[n].progress[1] <= 100 * events[n].progress[2]

C10_FailedStateReadSendsNothing ==
    (DfuSending /\ wire # <<>> /\ wire[1].result # 1)
      => /\ pc = "done"
         /\ ret = IRECV_E_USB_UPLOAD
         /\ wire[1].bmRequestType = 161
         /\ wire[1].bRequest = 5
         /\ wire[1].wLength = 1
         /\ Len(wire) = 1
         /\ events = <<>>

\* The state read of a DFU upload returned no byte.
C10_Witness ==
    /\ DfuSending
    /\ loc.length > 0
    /\ wire # <<>>
    /\ wire[1].result = 0

\* The position on the wire of the zero-length finalize packet, 0 if none.
FinalizeAt ==
    IF \E n \in 1..Len(wire) : IsDfuDownload(wire[n]) /\ wire[n].wLength = 0
    THEN CHOOSE n \in 1..Len(wire) :
           IsDfuDownload(wire[n]) /\ wire[n].wLength = 0
    ELSE 0

\* C11: an upload with notify_finished on a DFU session whose data packets
\* all went through sends one zero-length finalize packet, polls the
\* status three times whatever the polls return, then resets the device
\* and returns success.
C11_FinalizeAlwaysResets ==
    (DfuSending /\ loc.dfuNotifyFinished /\ pc = "done" /\ FinalizeAt > 0)
      => /\ ret = IRECV_E_SUCCESS
         /\ Len(wire) = FinalizeAt + FINISH_POLLS + 1
         /\ \A n \in FinalizeAt + 1 .. FinalizeAt + FINISH_POLLS :
               wire[n].xfer = "control" /\ wire[n].bRequest = 3
         /\ wire[Len(wire)] = ResetXfer

----------------------------------------------------------------------------
(* Properties of irecv_send_command and the primitives (SpecCommand).      *)

SendingCommand == loc.fn = "irecv_send_command"

\* C12: when the control transfer that carries the command fails,
\* irecv_send_command returns an error and the postcommand callback is
\* not called.
C12_SendFailurePropagates ==
    (SendingCommand /\ pc = "done" /\ wire # <<>> /\ wire[1].result < 0)
      => /\ ret # IRECV_E_SUCCESS
         /\ \A n \in 1..Len(events) : events[n].type # IRECV_POSTCOMMAND

\* The first m characters of the command text, then a NUL.
TextThenNul(m) == [k \in 1..m + 1 |-> IF k <= m THEN CommandChar(k - 1) ELSE 0]

\* C13: for a command text of n characters the send makes no transfer when
\* n = 0 and else one control transfer (0x40, request 0) of
\* min(n, 255) + 1 bytes: the first min(n, 255) characters and a NUL.
C13_CommandPayloadEndsWithNul ==
    (SendingCommand /\ pc = "sc_post")
      => LET n == loc.command
             m == IF n < 255 THEN n ELSE 255
         IN  IF n = 0
             THEN wire = <<>>
             ELSE /\ Len(wire) = 1
                  /\ wire[1].bmRequestType = 64
                  /\ wire[1].bRequest = 0
                  /\ wire[1].wLength = m + 1
                  /\ wire[1].tail = TextThenNul(m)
                  /\ wire[1].tail[Len(wire[1].tail)] = 0

\* C14: in irecv_send_command the precommand callback, when registered,
\* is called first, before any transfer; when it returns nonzero the call
\* returns success with no transfer and no postcommand callback; the
\* postcommand callback, when registered, is called after the transfer;
\* each callback is called at most once.
C14_CommandCallbackOrder ==
    (SendingCommand /\ check_context(client) = IRECV_E_SUCCESS)
      => /\ Len(wire) <= 1
         /\ Len(events) <= 2
         /\ \A j, k \in 1..Len(events) :
               j < k => /\ events[j].type = IRECV_PRECOMMAND
                        /\ events[k].type = IRECV_POSTCOMMAND
         /\ client.precommand_callback # NULL
               => /\ events # <<>>
                  /\ events[1].type = IRECV_PRECOMMAND
                  /\ events[1].at = 0
                  /\ events[1].result # 0
                       => /\ pc = "done"
                          /\ ret = IRECV_E_SUCCESS
                          /\ wire = <<>>
                          /\ Len(events) = 1
         /\ client.precommand_callback = NULL
               => \A n \in 1..Len(events) :
                     events[n].type = IRECV_POSTCOMMAND
         /\ \A n \in 1..Len(events) :
               events[n].type = IRECV_POSTCOMMAND
                 => /\ pc = "done"
                    /\ events[n].at = Len(wire)
                    /\ loc.length > 0 => events[n].at = 1
         /\ (pc = "done" /\ client.postcommand_callback # NULL
               /\ (events = <<>> \/ events[1].result = 0
                      \/ events[1].type = IRECV_POSTCOMMAND))
               => events[Len(events)].type = IRECV_POSTCOMMAND

\* Both callbacks were called around the transfer of a one-character
\* command.
C14_Witness ==
    /\ SendingCommand
    /\ pc = "done"
    /\ Len(wire) = 1
    /\ Len(events) = 2
    /\ events[1].type = IRECV_PRECOMMAND
    /\ events[2].at = 1

\* The transport primitives.
Primitives == {"irecv_control_transfer", "irecv_bulk_transfer",
               "irecv_get_string_descriptor_ascii"}

\* C15: a transport primitive called on a session without a live handle
\* returns NoDevice and makes no call of the USB library.
C15_NoHandleNoIo ==
    (loc.fn \in Primitives /\ client.handle = NULL)
      => /\ pc = "done"
         /\ ret = IRECV_E_NO_DEVICE
         /\ wire = <<>>

----------------------------------------------------------------------------
(* Properties of irecv_open and irecv_open_attempts (SpecOpen).            *)

OpenFns == {"irecv_open", "irecv_open_attempts"}

\* An irecv_open of the running call has returned.
Opened == loc.fn \in OpenFns /\ loc.opens > 0 /\ pc # "stopped"

\* The error that belongs to a failed call of the USB library.
ErrorOfStep(fn) ==
    CASE fn = "libusb_open" -> IRECV_E_UNABLE_TO_CONNECT
      [] fn \in {"libusb_get_configuration", "libusb_set_configuration"} ->
           IRECV_E_USB_CONFIGURATION
      [] OTHER -> IRECV_E_USB_INTERFACE

\* C16: irecv_open returns success only when setting configuration 1 and
\* every interface claim of the mode succeeded; a step of the USB library
\* that fails makes irecv_open return the error of that step.
C16_OpenFailsWhenAStepFails ==
    Opened =>
      \A n \in 1..Len(wire) :
          wire[n].result < 0 => loc.error = ErrorOfStep(wire[n].fn)

\* C17: when irecv_open returns an error, the open handles and the
\* allocated sessions are those from before the call.
C17_FailedOpenLeaksNothing ==
    (Opened /\ loc.error # IRECV_E_SUCCESS)
      => /\ hal.handles = loc.handles0
         /\ hal.sessions = loc.sessions0

\* C18: the context of the USB library is released by irecv_exit alone
\* and at most once: it is live until irecv_exit is called, and every
\* irecv_open runs against a live context.
C18_ContextReleasedOnlyByExit ==
    /\ pc \in {"idle", "oa_loop", "done"} => hal.context = "live"
    /\ hal.exits <= 1
    /\ Opened => loc.context0 = "live"

\* C19: irecv_open_attempts pauses once after every irecv_open that
\* failed, makes no more than `attempts` calls, returns success as soon
\* as one succeeds without calling irecv_open again, and returns success
\* whenever fewer than `attempts` failures are followed by a success.
C19_RetryUntilFirstSuccess ==
    (loc.fn = "irecv_open_attempts" /\ pc # "stopped")
      => /\ loc.sleeps = loc.failures
         /\ loc.opens <= loc.attempts
         /\ loc.opens \in {loc.failures, loc.failures + 1}
         /\ loc.opens = loc.failures + 1
               <=> (pc \in {"done", "exited"} /\ ret = IRECV_E_SUCCESS)
         /\ loc.opens = loc.failures + 1 => loc.error = IRECV_E_SUCCESS
         /\ (pc \in {"done", "exited"} /\ ret # IRECV_E_SUCCESS)
               => /\ loc.failures = loc.attempts
                  /\ loc.opens = loc.attempts

\* Three attempts, two failures, then the success: two pauses.
C19_Witness ==
    /\ loc.fn = "irecv_open_attempts"
    /\ pc = "done"
    /\ loc.attempts = 3
    /\ loc.failures = 2
    /\ loc.sleeps = 2
    /\ loc.opens = 3
    /\ ret = IRECV_E_SUCCESS

\* C20: when all `attempts` calls of irecv_open fail, irecv_open_attempts
\* returns the error of the last of them, after exactly `attempts` calls.
C20_AllFailReturnsLastError ==
    (loc.fn = "irecv_open_attempts" /\ pc = "done" /\ loc.attempts > 0
       /\ loc.failures = loc.attempts)
      => /\ ret = loc.error
         /\ loc.opens = loc.attempts

----------------------------------------------------------------------------
(* Properties of irecv_close and irecv_reconnect (SpecSession).            *)

\* The positions of the calls of fn on the log.
CallsAt(fn) == {k \in 1..Len(wire) : wire[k].fn = fn}

Reconnecting == loc.fn = "irecv_reconnect"

\* C21: irecv_reconnect closes the old session first: its disconnected
\* callback, when there is one, is called before the handle is released;
\* the session is freed and the pause is slept before the first
\* irecv_open; at most 10 irecv_open are made, and the call returns the
\* new session or NULL.
C21_ReconnectClosesPausesThenOpens ==
    Reconnecting =>
      /\ CallsAt("free") # {}
      /\ CallsAt("libusb_close") # {}
      /\ \A k \in CallsAt("libusb_close") : \A f \in CallsAt("free") : k < f
      /\ loc.old.disconnected_callback # NULL =>
           /\ Len(events) = 1
           /\ events[1].type = IRECV_DISCONNECTED
           /\ events[1].callback = loc.old.disconnected_callback
           /\ \A k \in CallsAt("libusb_close") : events[1].at < k
      /\ loc.old.disconnected_callback = NULL => events = <<>>
      /\ loc.initial_pause > 0 =>
           /\ Cardinality(CallsAt("sleep")) = 1
           /\ \A p \in CallsAt("sleep") :
                /\ wire[p].arg = loc.initial_pause
                /\ \A f \in CallsAt("free") : f < p
      /\ loc.initial_pause = 0 => CallsAt("sleep") = {}
      /\ \A k \in CallsAt("irecv_open") :
           /\ \A f \in CallsAt("free") : f < k
           /\ \A p \in CallsAt("sleep") : p < k
      /\ Cardinality(CallsAt("irecv_open")) <= 10
      /\ loc.opens <= 10
      /\ pc = "done" =>
           \/ ret = "new_client" /\ client.handle = "live"
           \/ ret = NULL /\ client = NoSession /\ loc.opens = 10

C21_Witness ==
    /\ Reconnecting
    /\ pc = "done"
    /\ ret = "new_client"
    /\ loc.opens > 1
    /\ loc.initial_pause > 0
    /\ loc.old.disconnected_callback # NULL

\* C22: after a successful irecv_reconnect the progress slot of the new
\* session holds what the progress slot of the old session held at the
\* call, and every other slot of the new session is empty.
C22_OnlyProgressCarriedOver ==
    (Reconnecting /\ pc = "done" /\ ret = "new_client") =>
      /\ client.progress_callback = loc.old.progress_callback
      /\ \A s \in Slots \ {"progress_callback"} : client[s] = NULL

C22_Witness ==
    /\ Reconnecting
    /\ pc = "done"
    /\ ret = "new_client"
    /\ loc.old.progress_callback = "cb2"
    /\ loc.old.received_callback # NULL
    /\ loc.old.disconnected_callback # NULL

Closing == loc.fn = "irecv_close" /\ loc.closes = 1

\* C23: irecv_close of a session with a disconnected callback calls it
\* exactly once, with size 0 and no data, before the handle is released
\* and before the session is freed; without one it releases the handle
\* and calls nothing.
C23_DisconnectBeforeRelease ==
    Closing =>
      /\ Cardinality(CallsAt("libusb_close")) = 1
      /\ Cardinality(CallsAt("free")) = 1
      /\ loc.old.disconnected_callback # NULL =>
           /\ Len(events) = 1
           /\ events[1].type = IRECV_DISCONNECTED
           /\ events[1].callback = loc.old.disconnected_callback
           /\ events[1].size = 0
           /\ events[1].data = NULL
           /\ \A k \in CallsAt("libusb_close") \cup CallsAt("free") :
                events[1].at < k
      /\ loc.old.disconnected_callback = NULL => events = <<>>

C23_Witness ==
    /\ Closing
    /\ pc = "done"
    /\ loc.old.disconnected_callback # NULL
    /\ Len(events) = 1
    /\ CallsAt("libusb_release_interface") # {}

\* C24: release is idempotent: however often one session is closed, its
\* handle is released at most once, and a close after the first reads no
\* freed memory and frees nothing.
C24_RepeatedCloseIsNoOp ==
    loc.fn = "irecv_close" =>
      /\ Cardinality(CallsAt("libusb_close")) <= 1
      /\ loc.freed_reads = 0
      /\ loc.frees <= 1

----------------------------------------------------------------------------
(* Properties of irecv_execute_script (SpecScript).                        *)

RunningScript == loc.fn = "irecv_execute_script"

\* The lines of a script: its characters between newlines, from position
\* pos on, with `line` the characters of the line read so far.
RECURSIVE LinesFrom(_, _, _)
LinesFrom(file, pos, line) ==
    IF pos > Len(file)
    THEN (IF line = <<>> THEN <<>> ELSE <<line>>)
    ELSE IF file[pos] = "\n"
    THEN (IF line = <<>> THEN <<>> ELSE <<line>>)
           \o LinesFrom(file, pos + 1, <<>>)
    ELSE LinesFrom(file, pos + 1, Append(line, file[pos]))

\* The lines of the script that are commands.
CommandLines(file) ==
    SelectSeq(LinesFrom(file, 1, <<>>), LAMBDA line : line[1] # "#")

\* The command texts on the log, in the order sent.
RECURSIVE SentFrom(_)
SentFrom(w) ==
    IF w = <<>>
    THEN <<>>
    ELSE (IF Head(w).xfer = "control"
          THEN <<SubSeq(Head(w).tail, 1, Head(w).wLength - 1)>>
          ELSE <<>>) \o SentFrom(Tail(w))

\* C25: irecv_execute_script sends exactly the lines of the script that
\* do not start with '#', in order, each as one command followed by one
\* receive; a comment line and two command lines give two commands.
C25_SendsExactlyTheCommandLines ==
    (RunningScript /\ pc = "done" /\ ret = IRECV_E_SUCCESS) =>
      /\ SentFrom(wire) = CommandLines(loc.file)
      /\ loc.commands = Len(CommandLines(loc.file))
      /\ loc.receives = loc.commands

\* The positions of the command transfers on the log.
CommandsAt == {k \in 1..Len(wire) : wire[k].xfer = "control"}

\* C26: the first command that fails ends the script: no command of a
\* later line is sent, and the call returns an error.
C26_FailureAbortsScript ==
    RunningScript =>
      \A k \in CommandsAt :
        wire[k].result < 0 =>
          /\ \A j \in CommandsAt : j <= k
          /\ pc = "done" => ret # IRECV_E_SUCCESS

----------------------------------------------------------------------------
(* Properties of the identification getters (SpecIdent).                   *)

\* The positions at which the key stands in the string.
KeyPositions(s, key) ==
    {p \in 1..Len(s) :
       /\ p + Len(key) - 1 <= Len(s)
       /\ \A k \in 1..Len(key) : s[p + k - 1] = key[k]}

\* The first of them.
FirstKey(s, key) ==
    CHOOSE p \in KeyPositions(s, key) : \A q \in KeyPositions(s, key) : p <= q

\* The values of the characters that are digits in the base.
DigitOf ==
    [ch \in {"0", "1", "2", "3", "4", "5", "6", "7", "8", "9", "A", "B",
             "C", "D", "E", "F"} |->
       CASE ch = "0" -> 0 [] ch = "1" -> 1 [] ch = "2" -> 2 [] ch = "3" -> 3
         [] ch = "4" -> 4 [] ch = "5" -> 5 [] ch = "6" -> 6 [] ch = "7" -> 7
         [] ch = "8" -> 8 [] ch = "9" -> 9 [] ch = "A" -> 10
         [] ch = "B" -> 11 [] ch = "C" -> 12 [] ch = "D" -> 13
         [] ch = "E" -> 14 [] ch = "F" -> 15]
DigitsOf(base) == {ch \in DOMAIN DigitOf : DigitOf[ch] < base}

\* Where the number that follows position pos starts: after the spaces.
NumberStart(s, pos) ==
    CHOOSE q \in pos..Len(s) + 1 :
      /\ q = Len(s) + 1 \/ s[q] # " "
      /\ \A k \in pos..q - 1 : s[k] = " "

\* How many digits stand at q.
RunLength(s, q, base) ==
    CHOOSE n \in 0..Len(s) - q + 1 :
      /\ \A k \in 0..n - 1 : s[q + k] \in DigitsOf(base)
      /\ q + n = Len(s) + 1 \/ s[q + n] \notin DigitsOf(base)

\* The number written by the n digits at q.
RECURSIVE PlaceValue(_, _, _, _)
PlaceValue(s, q, n, base) ==
    IF n = 0
    THEN 0
    ELSE PlaceValue(s, q, n - 1, base) * base + DigitOf[s[q + n - 1]]

\* Whether a number follows position pos, and the number.
HasNumber(s, pos, base) == RunLength(s, NumberStart(s, pos), base) > 0
NumberAt(s, pos, base) ==
    PlaceValue(s, NumberStart(s, pos),
               RunLength(s, NumberStart(s, pos), base), base)

\* The devices of the two shared chip ids by board id, and the devices of
\* the other chip ids.
BoardTable ==
    {<<ChipIds.CPID_IPHONE2G, BoardIds.BDID_IPHONE2G, "DEVICE_IPHONE2G">>,
     <<ChipIds.CPID_IPHONE2G, BoardIds.BDID_IPHONE3G, "DEVICE_IPHONE3G">>,
     <<ChipIds.CPID_IPHONE2G, BoardIds.BDID_IPOD1G, "DEVICE_IPOD1G">>,
     <<ChipIds.CPID_IPAD1G, BoardIds.BDID_IPAD1G, "DEVICE_IPAD1G">>,
     <<ChipIds.CPID_IPAD1G, BoardIds.BDID_IPHONE4, "DEVICE_IPHONE4">>,
     <<ChipIds.CPID_IPAD1G, BoardIds.BDID_IPOD4G, "DEVICE_IPOD4G">>,
     <<ChipIds.CPID_IPAD1G, BoardIds.BDID_APPLETV2, "DEVICE_APPLETV2">>,
     <<ChipIds.CPID_IPAD1G, BoardIds.BDID_IPHONE42, "DEVICE_IPHONE42">>,
     <<ChipIds.CPID_IPAD1G, BoardIds.BDID_IPHONE43, "DEVICE_IPHONE43">>}
ChipTable ==
    {<<ChipIds.CPID_IPHONE3GS, "DEVICE_IPHONE3GS">>,
     <<ChipIds.CPID_IPOD2G, "DEVICE_IPOD2G">>,
     <<ChipIds.CPID_IPOD3G, "DEVICE_IPOD3G">>}
SharedChip(cpid) == \E e \in BoardTable : e[1] = cpid

\* The number in the field of the key, 0 when there is no number.
FieldValue(s, key) ==
    IF KeyPositions(s, key) # {}
       /\ HasNumber(s, FirstKey(s, key) + Len(key), 10)
    THEN NumberAt(s, FirstKey(s, key) + Len(key), 10)
    ELSE 0

\* The device of a chip id and a board id that may be missing.
DeviceOf(cpid, has_bdid, bdid) ==
    IF SharedChip(cpid)
    THEN IF has_bdid /\ \E e \in BoardTable : e[1] = cpid /\ e[2] = bdid
         THEN (CHOOSE e \in BoardTable : e[1] = cpid /\ e[2] = bdid)[3]
         ELSE DEVICE_UNKNOWN
    ELSE IF \E e \in ChipTable : e[1] = cpid
    THEN (CHOOSE e \in ChipTable : e[1] = cpid)[2]
    ELSE DEVICE_UNKNOWN

KeyedCall ==
    /\ pc = "done"
    /\ loc.fn \in {"irecv_get_cpid", "irecv_get_bdid", "irecv_get_ecid"}
    /\ client.mode # kDfuMode2

\* C28: outside kDfuMode2 a getter whose key is not in the serial string
\* returns IRECV_E_UNKNOWN_ERROR and stores 0; when the key is there it
\* returns IRECV_E_SUCCESS, and the number that follows the key is stored.
C28_GetterReadsTheField ==
    KeyedCall =>
      /\ KeyPositions(client.serial, loc.key) = {} =>
           ret = IRECV_E_UNKNOWN_ERROR /\ loc.out = 0
      /\ KeyPositions(client.serial, loc.key) # {} =>
           /\ ret = IRECV_E_SUCCESS
           /\ HasNumber(client.serial,
                        FirstKey(client.serial, loc.key) + Len(loc.key),
                        loc.base) =>
                loc.out = NumberAt(client.serial,
                                   FirstKey(client.serial, loc.key)
                                     + Len(loc.key), loc.base)

C28_Witness ==
    /\ KeyedCall
    /\ loc.fn = "irecv_get_ecid"
    /\ ret = IRECV_E_SUCCESS
    /\ 1 \notin KeyPositions(client.serial, ECID_KEY)
    /\ loc.out = 31
    /\ loc.before # loc.out

\* C29: in kDfuMode2 irecv_get_cpid returns IRECV_E_UNKNOWN_ERROR whether
\* the first four characters of the serial string are a number or not;
\* when they are, the number is stored all the same, otherwise 0.
C29_Dfu2ChipIdAlwaysFails ==
    (pc = "done" /\ loc.fn = "irecv_get_cpid"
       /\ client.mode = kDfuMode2) =>
      LET first == SubSeq(client.serial, 1,
                          IF Len(client.serial) < 4
                          THEN Len(client.serial) ELSE 4)
      IN  /\ ret = IRECV_E_UNKNOWN_ERROR
          /\ loc.out = IF HasNumber(first, 1, 10)
                       THEN NumberAt(first, 1, 10) ELSE 0

C29_Witness ==
    /\ pc = "done"
    /\ loc.fn = "irecv_get_cpid"
    /\ client.mode = kDfuMode2
    /\ ret = IRECV_E_UNKNOWN_ERROR
    /\ Len(client.serial) > 4
    /\ loc.out = 8930
    /\ loc.before # loc.out

\* C30: a field whose key is in the serial string but is not followed by
\* a number makes the getter return IRECV_E_UNKNOWN_ERROR.
C30_MalformedFieldIsAnError ==
    (KeyedCall /\ KeyPositions(client.serial, loc.key) # {}
       /\ ~HasNumber(client.serial,
                     FirstKey(client.serial, loc.key) + Len(loc.key),
                     loc.base)) =>
      ret = IRECV_E_UNKNOWN_ERROR

----------------------------------------------------------------------------
(* Properties of the environment calls (SpecEnv).                          *)

\* C31: irecv_getret yields the first byte of the device's response as a
\* one-byte code: whenever the read stored a response whose first byte is
\* b, the value returned is b, a number of 0 .. 255.
C31_GetretYieldsTheFirstByte ==
    (loc.fn = "irecv_getret" /\ ret = IRECV_E_SUCCESS /\ loc.r > 0)
      => loc.value = <<0, loc.byte>>

\* The text of the command "setenv variable value" of a call of
\* irecv_setenv.
SetenvText(l) == SETENV \o l.variable.text \o <<" ">> \o l.value.text

\* A call of irecv_setenv that succeeded and whose command reached the
\* device is followed by a call of irecv_getenv for the same variable
\* whose command reached the device and whose read was answered.
SetenvThenGetenv ==
    /\ loc.fn = "irecv_setenv" /\ ret = IRECV_E_SUCCESS
    /\ Len(wire) = 1 /\ wire[1].result = wire[1].wLength
    /\ loc'.fn = "irecv_getenv" /\ ret' = IRECV_E_SUCCESS
    /\ loc'.variable = loc.variable
    /\ Len(wire') = 2 /\ wire'[1].result = wire'[1].wLength
    /\ wire'[2].result >= 0

C33_StatusOnlyFromSixBytes ==
    loc.fn = "irecv_get_status"
      => IF client.handle # NULL /\ loc.reply.n = 6
         THEN /\ ret = IRECV_E_SUCCESS
              /\ loc.status = loc.reply.byte4
              /\ wire = <<ControlXfer(161, 3, 0, 6, 0, <<>>, 6)>>
         ELSE /\ ret = IF client.handle = NULL THEN IRECV_E_NO_DEVICE
                                               ELSE IRECV_E_USB_STATUS
              /\ loc.status = 0

\* A status transfer that ended after 5 bytes, byte 4 among them, was
\* reported as a status error with the status 0.
C33_Witness ==
    /\ loc.fn = "irecv_get_status" /\ client.handle # NULL
    /\ loc.reply.n = 5 /\ loc.reply.byte4 = 5
    /\ ret = IRECV_E_USB_STATUS /\ loc.status = 0

----------------------------------------------------------------------------
(* Further properties of the transfer engine (SpecTransfer).               *)

\* A status request (0xA1, request 3).
IsStatusPoll(w) ==
    w.xfer = "control" /\ w.bmRequestType = 161 /\ w.bRequest = 3

\* C37: in an irecv_send_buffer on a DFU session a data packet after the
\* first is sent only when the packet before it was followed by a status
\* poll and the latest status poll returned the ready value 5; on a
\* recovery session no status poll is made between the packets.
C37_NextPacketWaitsForReady ==
    Sending =>
      IF client.mode \in {kDfuMode, kDfuMode2}
      THEN (/\ Len(DataXfers) >= 2
            /\ IsDataXfer(wire[Len(wire)]))
             => /\ loc.status = 5
                /\ IsStatusPoll(wire[Len(wire) - 1])
                /\ wire[Len(wire) - 1].result = 6
                /\ IsDataXfer(wire[Len(wire) - 2])
                /\ wire[Len(wire) - 2].result = wire[Len(wire) - 2].wLength
      ELSE \A k \in 1..Len(wire) : ~IsStatusPoll(wire[k])

\* The second packet of a DFU upload has been sent, the status being 5.
C37_Witness ==
    /\ Sending
    /\ client.mode = kDfuMode2
    /\ Len(DataXfers) = 2
    /\ IsDataXfer(wire[Len(wire)])
    /\ loc.status = 5
    /\ retryPolls = 0

\* The bytes a data transfer asked for, and whether all of them were
\* transferred without an error.
XferSize(w) == IF w.xfer = "bulk" THEN w.length ELSE w.wLength
XferComplete(w) ==
    IF w.xfer = "bulk"
    THEN w.result.ret = 0 /\ w.result.transferred = w.length
    ELSE w.result = w.wLength

\* The last data packet on the wire has been dealt with: it was
\* transferred whole and, on a DFU session that sends, the status poll
\* after it succeeded and the wait for the ready status is over.
LastPacketDone ==
    LET n == CHOOSE k \in 1..Len(wire) :
               IsDataXfer(wire[k])
                 /\ \A j \in (k + 1)..Len(wire) : ~IsDataXfer(wire[j])
    IN  /\ XferComplete(wire[n])
        /\ (Sending /\ client.mode \in {kDfuMode, kDfuMode2})
             => /\ pc \notin {"sb_status", "sb_retry"}
                /\ n < Len(wire)
                /\ wire[n + 1].result = 6

\* C38: with a progress callback registered, irecv_send_buffer and
\* irecv_recv_buffer call it exactly once for every packet that was
\* transferred whole and, in a DFU upload, brought to the ready status; the
\* calls are in packet order, each with the cumulative size of the packets
\* so far, which grows strictly; a packet that failed, or whose status
\* poll failed, is not reported and ends the call.
C38_OneProgressEventPerPacket ==
    ((Sending \/ Receiving) /\ client.progress_callback # NULL) =>
      LET d == DataXfers
          done == IF d = <<>> THEN 0
                  ELSE IF LastPacketDone THEN Len(d) ELSE Len(d) - 1
      IN  /\ Len(events) = done
          /\ \A k \in 1..Len(events) :
               /\ events[k].type = IRECV_PROGRESS
               /\ events[k].callback = client.progress_callback
               /\ XferComplete(d[k])
               /\ events[k].size
                    = XferSize(d[k]) + IF k = 1 THEN 0 ELSE events[k - 1].size
               /\ k > 1 => events[k].size > events[k - 1].size

\* A DFU upload of two packets has reported both and returned.
C38_Witness ==
    /\ Sending /\ client.mode = kDfuMode /\ client.progress_callback # NULL
    /\ pc = "done" /\ ret = IRECV_E_SUCCESS
    /\ Len(events) = 2

\* C38 as stated: when the call has returned, the progress callback has
\* been called once for every packet that was transferred without an
\* error.
C38_EveryTransferredPacketReported ==
    (pc = "done" /\ (Sending \/ Receiving)
                 /\ client.progress_callback # NULL) =>
      Len(events) = Cardinality({k \in 1..Len(DataXfers) :
                                   XferComplete(DataXfers[k])})

\* C34: irecv_recv_buffer asks for the data in packets of 0x2000 bytes on
\* a recovery session and of 0x800 bytes on a DFU session, the last packet
\* holding what remains; the first packet whose transferred size is not
\* the size asked for ends the call with the upload error: no packet is
\* asked for after it and no progress event is made for it.
C34_RecvMismatchAbortsDownload ==
    Receiving =>
      LET P == IF client.mode \in {kDfuMode, kDfuMode2} THEN 2048 ELSE 8192
      IN  \A k \in 1..Len(wire) :
            /\ wire[k].xfer = "control"
            /\ wire[k].bmRequestType = 161 /\ wire[k].bRequest = 2
            /\ wire[k].wLength
                 = IF loc.length - (k - 1) * P < P
                   THEN loc.length - (k - 1) * P ELSE P
            /\ wire[k].result # wire[k].wLength
                 => /\ k = Len(wire)
                    /\ pc = "done"
                    /\ ret = IRECV_E_USB_UPLOAD
                    /\ Len(events) = IF client.progress_callback # NULL
                                     THEN k - 1 ELSE 0

\* The second packet of a download on a recovery session came short, after
\* one progress event.
C34_Witness ==
    /\ Receiving /\ client.mode = kRecoveryMode1
    /\ Len(wire) = 2
    /\ wire[2].result = wire[2].wLength - 16
    /\ ret = IRECV_E_USB_UPLOAD
    /\ Len(events) = 1

----------------------------------------------------------------------------
(* Properties of irecv_receive called by the application (SpecEnv).        *)

\* Read k of the call, a bulk read of endpoint 0x81, returned data.
ChunkRead(k) == wire[k].result.ret = 0 /\ wire[k].result.transferred > 0

\* C35: irecv_receive on a live session reads endpoint 0x81 in buffers of
\* BUFFER_SIZE bytes and calls the received callback, when one is
\* registered, once for every read that returned data, in the order of the
\* reads; the read that fails, is empty, is short, or whose callback
\* returns nonzero is the last one, and the call returns success.
C35_ReceiveDeliversEveryChunk ==
    (loc.fn = "irecv_receive" /\ client.handle # NULL) =>
      LET chunks == {k \in 1..Len(wire) : ChunkRead(k)}
      IN  /\ ret = IRECV_E_SUCCESS
          /\ Len(wire) >= 1
          /\ \A k \in 1..Len(wire) :
               /\ wire[k].xfer = "bulk" /\ wire[k].endpoint = 129
               /\ wire[k].length = BUFFER_SIZE
          /\ IF client.received_callback = NULL
             THEN events = <<>>
             ELSE /\ Len(events) = Cardinality(chunks)
                  /\ \A j \in 1..Len(events) :
                       /\ events[j].type = IRECV_RECEIVED
                       /\ events[j].callback = client.received_callback
                       /\ events[j].at \in chunks
                       /\ events[j].size
                            = wire[events[j].at].result.transferred
                       /\ j > 1 => events[j].at > events[j - 1].at
          /\ \A k \in 1..Len(wire) :
               (k = Len(wire))
                 <=> \/ ~ChunkRead(k)
                     \/ wire[k].result.transferred < BUFFER_SIZE
                     \/ \E j \in 1..Len(events) :
                          events[j].at = k /\ events[j].result # 0

\* A full buffer was delivered to the callback, which let the call go on,
\* and the next read failed with a byte stored, which was not delivered.
C35_Witness ==
    /\ loc.fn = "irecv_receive" /\ client.received_callback # NULL
    /\ Len(wire) = 2 /\ Len(events) = 1
    /\ wire[2].result.ret # 0 /\ wire[2].result.transferred = 1
    /\ ret = IRECV_E_SUCCESS

----------------------------------------------------------------------------
(* Properties of the operations of an open session (SpecOps).              *)

\* C36: no operation on an open session (a transfer, a command, a read of
\* the identity, a subscription or its removal, a status request, a
\* receive) changes the mode of the session or its cached serial string:
\* both stay as irecv_open set them.
C36_ModeAndSerialStay ==
    [][client'.mode = client.mode /\ client'.serial = client.serial]_vars

\* An upload has returned on a session on which the application had
\* subscribed a callback before.
C36_Witness ==
    /\ lastCall.op = "subscribe"
    /\ loc.fn = "irecv_send_buffer"
    /\ pc = "done" /\ ret = IRECV_E_SUCCESS
    /\ client.mode = kDfuMode2
    /\ client.serial = CPID_KEY \o <<"8", "9", "3", "0">>

----------------------------------------------------------------------------
(* Further properties of the session (SpecSession).                        *)

\* The interfaces claimed on the handle of a session that irecv_open
\* opened with every claim going through: 0 and 1 in a recovery mode, 0 in
\* the DFU modes.
ClaimedAtOpen(c) ==
    IF c.mode # kDfuMode /\ c.mode # kDfuMode2 THEN {0, 1} ELSE {0}

\* C39: irecv_close releases every interface that irecv_open claimed on the
\* handle before it closes the handle: no interface is still claimed when
\* libusb_close is called.
C39_CloseReleasesClaimedInterfaces ==
    (loc.fn = "irecv_close" /\ loc.closes = 1 /\ loc.old.handle # NULL) =>
      \A i \in ClaimedAtOpen(loc.old) :
        \E k \in CallsAt("libusb_release_interface") :
          /\ wire[k].arg = i
          /\ \A j \in CallsAt("libusb_close") : k < j

----------------------------------------------------------------------------
(* Properties of the loader of configuration files (SpecConfig).           *)

\* C40: a load of a file whose includes form a cycle ends: the nesting of
\* includes never exceeds MAX_INCLUDE_NESTING + 1 files, the load does not
\* stop short of returning, it returns no configuration once the nesting
\* was exceeded, and when it has returned the counter nestcnt is back at
\* its value from before the call.
C40_CyclicIncludeReturnsNothing ==
    loc.fn = "config_file_load" =>
      /\ Len(loc.stack) <= MAX_INCLUDE_NESTING + 1
      /\ loc.too_deep => pc # "stopped"
      /\ pc = "done" => /\ loc.nestcnt = 0
                        /\ loc.too_deep => ret = NULL
====
